---- MODULE Spec2Model ----
(***************************************************************************)
(* Thornvale locomotion core: the fixed-step scheduler of PhysicsWorld,    *)
(* the kinematic CharacterMotor, the PlatformCarrier, the PlayerController *)
(* and the frame loop (animate) that drives them.                          *)
(*                                                                         *)
(* Numbers are fixed point.  Time is counted in units of 1/TU second,      *)
(* velocity in units of 1/VU m/s, directions (sin, cos, input axes) in     *)
(* units of 1/DU, and positions in units of 1/(TU*VU) m, so that           *)
(* velocity * dt is a position without rounding.                           *)
(***************************************************************************)
EXTENDS Integers, Sequences, FiniteSets, TLC

VARIABLES physics, body, platforms, motor, player, input, camera, visual, carrier, frame,
          last, hist

vars == <<physics, body, platforms, motor, player, input, camera, visual, carrier, frame,
          last, hist>>

(***************************************************************************)
(* Scales                                                                  *)
(***************************************************************************)
TU == 60 * 10
VU == 12 * 100
DU == 10 * 100

(***************************************************************************)
(* Bounds of the model                                                     *)
(***************************************************************************)
\* largest dt (time units) handed to PhysicsWorld.step when it is called directly
MaxStepDt == 90

\* number of CharacterMotor operations called in a run of MotorSpec
MaxMotorOps == 4

\* number of updates in a run of BlendSpec and of FrictionSpec
MaxBlendOps == 3
MaxFrictionOps == 2

\* frames of PlayerController.update in PlayerSpec
MaxPlayerFrames == 6

\* frames of animate in Spec
MaxFrames == 2

\* ticks of the carry pipeline in CarrySpec
MaxCarryTicks == 3

\* PlatformCarrier operations and platform moves in a run of CarrierSpec
MaxCarrierOps == 4

(***************************************************************************)
(* Arithmetic helpers                                                      *)
(***************************************************************************)
Abs(n) == IF n < 0 THEN -n ELSE n

Min(a, b) == IF a < b THEN a ELSE b

Max(a, b) == IF a > b THEN a ELSE b

\* division rounding toward zero (fixed-point image of a float product)
DivT(a, b) == IF a >= 0 THEN a \div b ELSE -((-a) \div b)

Vec(x, y, z) == [x |-> x, y |-> y, z |-> z]

ZeroVec == Vec(0, 0, 0)

VAdd(a, b) == Vec(a.x + b.x, a.y + b.y, a.z + b.z)

(***************************************************************************)
(* PhysicsWorld: fixed timestep accumulator                                *)
(***************************************************************************)
fixedDt == TU \div 60

maxSubSteps == 5

\* Rapier world.step() on a kinematic position-based body: the pending next
\* translation (and rotation), if any, becomes the translation (and rotation).
WorldStep(b) ==
    IF b.exists /\ b.pending
    THEN [b EXCEPT !.pos = b.next, !.rot = b.nextRot, !.pending = FALSE]
    ELSE b

RECURSIVE WorldStepN(_, _)
WorldStepN(b, n) == IF n = 0 THEN b ELSE WorldStepN(WorldStep(b), n - 1)

\* StepLoop with the sub-step cap tested off by one (steps <= maxSubSteps)
RECURSIVE StepLoop_OffByOne(_, _)
StepLoop_OffByOne(acc, steps) ==
    IF acc >= fixedDt /\ steps <= maxSubSteps
    THEN StepLoop_OffByOne(acc - fixedDt, steps + 1)
    ELSE <<acc, steps>>

\* the while loop of PhysicsWorld.step: <<accumulator, steps>> when it exits
RECURSIVE StepLoop(_, _)
StepLoop(acc, steps) ==
    IF acc >= fixedDt /\ steps < maxSubSteps
    THEN StepLoop(acc - fixedDt, steps + 1)
    ELSE <<acc, steps>>

\* DropBacklog without the reset: the backlog is kept
DropBacklog_Keep(acc) == acc

\* a guard that throws away every remainder
DropBacklog_Eager(acc) == IF acc > 0 THEN 0 ELSE acc

\* the "spiral of death" guard after the loop
DropBacklog(acc) == IF acc > fixedDt * 2 THEN 0 ELSE acc

\* PhysicsWorld.step(dt): the accumulator, the character body b and the platform
\* bodies pbs after the call, with the number of sub-steps run
PhysicsStepResult(p, b, pbs, dt) ==
    IF ~p.world
    THEN [physics |-> p, body |-> b, platforms |-> pbs, steps |-> 0,
          added |-> p.accumulator]
    ELSE LET a    == p.accumulator + dt
             loop == StepLoop(a, 0)
         IN  [physics   |-> [p EXCEPT !.accumulator = DropBacklog(loop[1])],
              body      |-> WorldStepN(b, loop[2]),
              platforms |-> [h \in DOMAIN pbs |-> WorldStepN(pbs[h], loop[2])],
              steps     |-> loop[2],
              added     |-> a]

PhysicsConstructed == [world |-> FALSE, accumulator |-> 0]

NoBody ==
    [exists |-> FALSE, pos |-> ZeroVec, rot |-> 0, next |-> ZeroVec, nextRot |-> 0,
     pending |-> FALSE]

\* world.createRigidBody(kinematicPositionBased().setTranslation(position))
KinematicBody(position) ==
    [exists |-> TRUE, pos |-> position, rot |-> 0, next |-> position, nextRot |-> 0,
     pending |-> FALSE]

(***************************************************************************)
(* Fixed-point images of Math.sqrt, Math.exp, Math.sin and Math.cos        *)
(***************************************************************************)
\* floor of the square root, by bisection on [lo, hi]
RECURSIVE SqrtSearch(_, _, _)
SqrtSearch(n, lo, hi) ==
    IF lo >= hi THEN lo
    ELSE LET mid == (lo + hi + 1) \div 2
         IN  IF mid * mid <= n THEN SqrtSearch(n, mid, hi) ELSE SqrtSearch(n, lo, mid - 1)

ISqrt(n) == SqrtSearch(n, 0, 46340)

\* exp(-a / EU) in units of 1/XU, by the alternating Taylor series (a / EU <= 2)
EU == 4 * 1000
XU == 100 * 1000

RECURSIVE ExpSeries(_, _, _, _)
ExpSeries(a, term, n, acc) ==
    IF term = 0 \/ n > 24 THEN acc
    ELSE LET nxt == -DivT(term * a, EU * n)
         IN  ExpSeries(a, nxt, n + 1, acc + nxt)

ExpNeg(a) == ExpSeries(a, XU, 1, XU)

\* sin and cos of a yaw given in eighths of a turn, in units of 1/DU
SinE(yaw) ==
    LET k == yaw % 8
    IN  CASE k = 0 -> 0 [] k = 1 -> 707 [] k = 2 -> 1000 [] k = 3 -> 707
          [] k = 4 -> 0 [] k = 5 -> -707 [] k = 6 -> -1000 [] k = 7 -> -707

CosE(yaw) == SinE(yaw + 2)

(***************************************************************************)
(* CharacterMotor                                                          *)
(***************************************************************************)
maxSpeed == 6 * VU

acceleration == 40

friction == 15

\* airControl = 0.3
airControlNum == 3
airControlDen == 10

coyoteTime == TU \div 10

\* PlayerController.jumpStrength, also the default strength of jump()
jumpStrength == 8 * VU

gravity == 20

terminalVelocity == -50 * VU

groundBias == -2 * VU

\* 0.01 m/s, the per-axis "stop if very slow" threshold
stopEpsilon == VU \div 100

\* 0.001, the squared-length threshold of hasInput, in units of 1/(DU*DU)
inputEpsilonSq == (DU * DU) \div 1000

\* 0.01, the squared-speed threshold of getFacingYaw, in units of 1/(VU*VU)
facingEpsilonSq == (VU * VU) \div 100

MotorConstructed ==
    [inited |-> FALSE, velocity |-> ZeroVec, isGrounded |-> FALSE,
     groundedTimer |-> 0, platformVelocity |-> ZeroVec]

\* CharacterMotor.init(position): body, collider and controller are created
MotorInitResult(m, position) ==
    [motor |-> [m EXCEPT !.inited = TRUE],
     body  |-> KinematicBody(position)]

\* desiredDir of update before normalisation, from the input axes (units of 1/DU)
DesiredDir(inputDir, cameraYaw) ==
    LET fx == SinE(cameraYaw)
        fz == CosE(cameraYaw)
        rx == CosE(cameraYaw)
        rz == -SinE(cameraYaw)
    IN  [x |-> DivT(fx * (-inputDir.z), DU) + DivT(rx * inputDir.x, DU),
         z |-> DivT(fz * (-inputDir.z), DU) + DivT(rz * inputDir.x, DU)]

LengthSq2(d) == d.x * d.x + d.z * d.z

\* hasInput with any nonzero length counted as input
HasInput_AnyNonzero(d) == LengthSq2(d) > 0

HasInput(d) == LengthSq2(d) > inputEpsilonSq

Normalize2(d) ==
    LET len == ISqrt(LengthSq2(d))
    IN  [x |-> DivT(d.x * DU, len), z |-> DivT(d.z * DU, len)]

\* targetVel = normalize(desiredDir) * maxSpeed
TargetVel(d) ==
    LET n == Normalize2(d)
    IN  [x |-> DivT(n.x * maxSpeed, DU), z |-> DivT(n.z * maxSpeed, DU)]

\* (target - velocity) * accelRate * dt on one axis
AccelStep(target, v, grounded, dt) ==
    IF grounded
    THEN DivT((target - v) * acceleration * dt, TU)
    ELSE DivT((target - v) * acceleration * airControlNum * dt, airControlDen * TU)

\* the "interpolate toward target velocity" branch
Accelerate(vel, d, grounded, dt) ==
    LET t == TargetVel(d)
    IN  [vel EXCEPT !.x = vel.x + AccelStep(t.x, vel.x, grounded, dt),
                    !.z = vel.z + AccelStep(t.z, vel.z, grounded, dt)]

\* Math.exp(-frictionRate * dt) in units of 1/FU
FU == 10 * 1000

FrictionFactor(grounded, dt) ==
    IF grounded
    THEN ExpNeg(DivT(friction * dt * EU, TU)) \div (XU \div FU)
    ELSE ExpNeg(DivT(friction * airControlNum * dt * EU, airControlDen * TU)) \div (XU \div FU)

\* "Stop if very slow", applied to one axis
StopIfSlow(v) == IF Abs(v) < stopEpsilon THEN 0 ELSE v

\* the friction branch
ApplyFriction(vel, grounded, dt) ==
    LET f == FrictionFactor(grounded, dt)
    IN  [vel EXCEPT !.x = StopIfSlow(DivT(vel.x * f, FU)),
                    !.z = StopIfSlow(DivT(vel.z * f, FU))]

\* the vertical rule without the terminal-velocity floor
VerticalRule_NoFloor(vy, grounded, dt) ==
    IF ~grounded THEN vy - ((gravity * VU * dt) \div TU) ELSE groundBias

\* the gravity / ground-contact rule for velocity.y
VerticalRule(vy, grounded, dt) ==
    IF ~grounded THEN Max(vy - ((gravity * VU * dt) \div TU), terminalVelocity)
    ELSE groundBias

\* movement = velocity * dt + platformVelocity * dt (position units)
Movement(vel, pv, dt) ==
    Vec(vel.x * dt + pv.x * dt, vel.y * dt + pv.y * dt, vel.z * dt + pv.z * dt)

\* What controller.computeColliderMovement may answer for a desired movement:
\* the movement itself, the movement stopped by a floor, or no movement.
SweepModes == {"free", "floor", "blocked"}

SweepOutcomes == [mode : SweepModes, grounded : BOOLEAN]

Corrected(movement, mode) ==
    CASE mode = "free"    -> movement
      [] mode = "floor"   -> [movement EXCEPT !.y = Max(movement.y, 0)]
      [] mode = "blocked" -> ZeroVec

\* the "update grounded state" block
GroundedUpdate(m, grounded, dt) ==
    IF grounded
    THEN [m EXCEPT !.isGrounded = TRUE,
                   !.groundedTimer = coyoteTime,
                   !.velocity.y = IF m.velocity.y < 0 THEN 0 ELSE m.velocity.y]
    ELSE [m EXCEPT !.isGrounded = FALSE,
                   !.groundedTimer = m.groundedTimer - dt]

\* an update that takes the rates and the vertical rule from the sweep's new flag
MotorUpdateResult_FlagFirst(m, b, dt, inputDir, cameraYaw, sweep) ==
    IF ~m.inited THEN [motor |-> m, body |-> b]
    ELSE LET d    == DesiredDir(inputDir, cameraYaw)
             velH == IF HasInput(d)
                     THEN Accelerate(m.velocity, d, sweep.grounded, dt)
                     ELSE ApplyFriction(m.velocity, sweep.grounded, dt)
             vel  == [velH EXCEPT !.y = VerticalRule(m.velocity.y, sweep.grounded, dt)]
             mv   == Movement(vel, m.platformVelocity, dt)
             corr == Corrected(mv, sweep.mode)
             m1   == GroundedUpdate([m EXCEPT !.velocity = vel], sweep.grounded, dt)
         IN  [motor |-> m1,
              body  |-> [b EXCEPT !.next = VAdd(b.pos, corr), !.pending = TRUE]]

\* CharacterMotor.update(dt, inputDir, cameraYaw): [motor, body] after the call
MotorUpdateResult(m, b, dt, inputDir, cameraYaw, sweep) ==
    IF ~m.inited THEN [motor |-> m, body |-> b]
    ELSE LET d    == DesiredDir(inputDir, cameraYaw)
             velH == IF HasInput(d)
                     THEN Accelerate(m.velocity, d, m.isGrounded, dt)
                     ELSE ApplyFriction(m.velocity, m.isGrounded, dt)
             vel  == [velH EXCEPT !.y = VerticalRule(m.velocity.y, m.isGrounded, dt)]
             mv   == Movement(vel, m.platformVelocity, dt)
             corr == Corrected(mv, sweep.mode)
             m1   == GroundedUpdate([m EXCEPT !.velocity = vel], sweep.grounded, dt)
         IN  [motor |-> m1,
              body  |-> [b EXCEPT !.next = VAdd(b.pos, corr), !.pending = TRUE]]

\* canJump with the grace window closed one comparison late (timer >= 0)
CanJump_Inclusive(m) == m.groundedTimer >= 0

\* CharacterMotor.canJump()
CanJump(m) == m.groundedTimer > 0

\* jump that leaves the coyote timer running
JumpResult_KeepTimer(m, strength, allowAir) ==
    IF m.groundedTimer > 0 \/ allowAir
    THEN [m EXCEPT !.velocity.y = strength, !.isGrounded = FALSE]
    ELSE m

\* CharacterMotor.jump(strength, allowAir)
JumpResult(m, strength, allowAir) ==
    IF CanJump(m) \/ allowAir
    THEN [m EXCEPT !.velocity.y = strength, !.groundedTimer = 0, !.isGrounded = FALSE]
    ELSE m

\* CharacterMotor.teleport(position): [motor, body] after the call
TeleportResult(m, b, position) ==
    IF b.exists
    THEN [motor |-> [m EXCEPT !.velocity = ZeroVec],
          body  |-> [b EXCEPT !.next = position, !.pending = TRUE]]
    ELSE [motor |-> m, body |-> b]

\* CharacterMotor.setPlatformVelocity(velocity)
SetPlatformVelocityResult(m, velocity) == [m EXCEPT !.platformVelocity = velocity]

\* CharacterMotor.getFacingYaw(): NoFacing stands for null
NoFacing == 100000

(***************************************************************************)
(* CameraRig (yaw in eighths of a turn, pitch in milliradians)             *)
(***************************************************************************)
minPitch == -500

maxPitch == 1200

\* the constructor's camera settings, in millimetres (public fields of the rig)
distance == 5 * 1000

minDistance == 1000

pivotHeight == 1500

shoulderOffset == 500

positionSharpness == 12

collisionOffset == 200

Clamp(value, lo, hi) == Max(lo, Min(hi, value))

CameraConstructed ==
    [yaw |-> 0, pitch |-> 300, target |-> ZeroVec,
     distance |-> distance, minDistance |-> minDistance,
     shoulderOffset |-> shoulderOffset, collisionOffset |-> collisionOffset,
     currentDistance |-> distance, smoothedPosition |-> ZeroVec]

\* applyInput without the clamp of the pitch
ApplyInputResult_NoClamp(cam, dx, dy) ==
    [cam EXCEPT !.yaw = cam.yaw - dx, !.pitch = cam.pitch + dy]

\* CameraRig.applyInput(deltaX, deltaY)
ApplyInputResult(cam, dx, dy) ==
    [cam EXCEPT !.yaw = cam.yaw - dx, !.pitch = Clamp(cam.pitch + dy, minPitch, maxPitch)]

\* CameraRig.setTarget(position)
SetTargetResult(cam, position) == [cam EXCEPT !.target = position]

(***************************************************************************)
(* Angles in milliradians                                                  *)
(***************************************************************************)
PI == 3142

\* normalizeAngle: the two while loops
RECURSIVE NormalizeAngle(_)
NormalizeAngle(a) ==
    IF a > PI THEN NormalizeAngle(a - 2 * PI)
    ELSE IF a < -PI THEN NormalizeAngle(a + 2 * PI)
    ELSE a

\* atan(n / d) for 0 <= n <= d, d > 0
AtanUnit(n, d) ==
    LET t == (n * 1000) \div d
    IN  (t * 785) \div 1000 + (273 * t * (1000 - t)) \div 1000000

\* Math.atan2(y, x)
Atan2(y, x) ==
    LET ay == Abs(y)
        ax == Abs(x)
        a  == IF ax = 0 /\ ay = 0 THEN 0
              ELSE IF ax >= ay THEN AtanUnit(ay, ax)
              ELSE PI \div 2 - AtanUnit(ax, ay)
        q  == IF x >= 0 THEN a ELSE PI - a
    IN  IF y < 0 THEN -q ELSE q

\* Math.sin of an angle in milliradians, in units of 1/DU (Taylor series on [-PI/2, PI/2])
SinM(a) ==
    LET n  == NormalizeAngle(a)
        x  == IF n > PI \div 2 THEN PI - n ELSE IF n < -(PI \div 2) THEN -PI - n ELSE n
        x2 == (x * x) \div 1000
        t3 == DivT(DivT(x2 * x, 1000), 6)
        t5 == DivT(DivT(t3 * x2, 1000), 20)
        t7 == DivT(DivT(t5 * x2, 1000), 42)
    IN  x - t3 + t5 - t7

\* Math.cos of an angle in milliradians, in units of 1/DU
CosM(a) == SinM(a + PI \div 2)

(***************************************************************************)
(* CharacterMotor.getFacingYaw and VisualRig                               *)
(***************************************************************************)
\* the threshold test with the bound itself counted as "no movement"
BelowFacingSpeed_Inclusive(v) ==
    /\ Abs(v.x) < VU
    /\ Abs(v.z) < VU
    /\ v.x * v.x + v.z * v.z <= facingEpsilonSq

\* vel.x * vel.x + vel.z * vel.z < 0.01 (a component of 1 m/s or more decides alone)
BelowFacingSpeed(v) ==
    /\ Abs(v.x) < VU
    /\ Abs(v.z) < VU
    /\ v.x * v.x + v.z * v.z < facingEpsilonSq

GetFacingYaw(m) ==
    IF BelowFacingSpeed(m.velocity) THEN NoFacing ELSE Atan2(m.velocity.x, m.velocity.z)

rotationSharpness == 12

VisualConstructed == [facingYaw |-> 0, isMoving |-> FALSE, position |-> ZeroVec]

\* dampAngle(current, target, sharpness, dt)
DampAngle(current, target, sharpness, dt) ==
    current + DivT(NormalizeAngle(target - current) * (XU - ExpNeg(DivT(sharpness * dt * EU, TU))), XU)

\* an update that turns the rig back to yaw 0 when it is given no target
VisualUpdateResult_ResetFacing(v, dt, position, targetYaw) ==
    IF targetYaw # NoFacing
    THEN [v EXCEPT !.position = position, !.isMoving = TRUE,
                   !.facingYaw = DampAngle(v.facingYaw, targetYaw, rotationSharpness, dt)]
    ELSE [v EXCEPT !.position = position, !.isMoving = FALSE, !.facingYaw = 0]

\* VisualRig.update(dt, position, targetYaw)
VisualUpdateResult(v, dt, position, targetYaw) ==
    IF targetYaw # NoFacing
    THEN [v EXCEPT !.position = position, !.isMoving = TRUE,
                   !.facingYaw = DampAngle(v.facingYaw, targetYaw, rotationSharpness, dt)]
    ELSE [v EXCEPT !.position = position, !.isMoving = FALSE]

\* VisualRig.setFacing(yaw)
SetFacingResult(v, yaw) == [v EXCEPT !.facingYaw = yaw]

(***************************************************************************)
(* CameraRig.update (camera lengths and positions in millimetres)          *)
(***************************************************************************)
\* a world position (units of 1/(TU*VU) m) in millimetres
MM == (TU * VU) \div 1000

ToMM(p) == Vec(DivT(p.x, MM), DivT(p.y, MM), DivT(p.z, MM))

\* 1 - Math.exp(-sharpness * dt) in units of 1/FU
DampFactor(sharpness, dt) == (XU - ExpNeg(DivT(sharpness * dt * EU, TU))) \div (XU \div FU)

\* a damp that lands on its target at once
Damp_Snap(a, b, sharpness, dt) == b

\* damp(a, b, sharpness, dt) = lerp(a, b, 1 - exp(-sharpness * dt))
Damp(a, b, sharpness, dt) == a + DivT((b - a) * DampFactor(sharpness, dt), FU)

\* the raycast of _checkCollision: NoHit, or the distance of the first hit
NoHit == -1

\* pivot.distanceTo(desiredPos): the length of the collision ray (raycaster.far)
RayLength(cam) == ISqrt(cam.distance * cam.distance + cam.shoulderOffset * cam.shoulderOffset)

\* CameraRig._checkCollision(pivot, desiredPos, scene), given the raycast answer
CheckCollision(cam, hit) ==
    IF hit # NoHit THEN Max(cam.minDistance, hit - cam.collisionOffset) ELSE cam.distance

\* pivot + forward * (-d)
AlongForward(cam, d) ==
    LET t  == ToMM(cam.target)
        cp == CosM(cam.pitch)
        fx == DivT(SinE(cam.yaw) * cp, DU)
        fy == SinM(cam.pitch)
        fz == DivT(CosE(cam.yaw) * cp, DU)
    IN  Vec(t.x - DivT(fx * d, DU), t.y + pivotHeight - DivT(fy * d, DU), t.z - DivT(fz * d, DU))

\* pivot + forward * (-d) + right * shoulderOffset, right = (cos yaw, 0, -sin yaw)
OrbitPosition(cam, d) ==
    VAdd(AlongForward(cam, d),
         Vec(DivT(CosE(cam.yaw) * cam.shoulderOffset, DU), 0,
             -DivT(SinE(cam.yaw) * cam.shoulderOffset, DU)))

\* CameraRig.update(dt, scene) with collision enabled and a scene given
CameraUpdateResult(cam, dt, hit) ==
    LET d  == Damp(cam.currentDistance, CheckCollision(cam, hit), positionSharpness, dt)
        tp == OrbitPosition(cam, d)
        sp == cam.smoothedPosition
    IN  [cam EXCEPT !.currentDistance = d,
                    !.smoothedPosition = Vec(Damp(sp.x, tp.x, positionSharpness, dt),
                                             Damp(sp.y, tp.y, positionSharpness, dt),
                                             Damp(sp.z, tp.z, positionSharpness, dt))]

\* CameraRig.resetPosition()
ResetPositionResult(cam) ==
    [cam EXCEPT !.smoothedPosition = AlongForward(cam, cam.distance),
                !.currentDistance = cam.distance]

(***************************************************************************)
(* PlatformCarrier                                                         *)
(***************************************************************************)
\* collider handles of the kinematic platforms; NullCollider stands for null
PlatformHandles == {1, 2}

NullCollider == 0

\* a platform of the demo scene: its kinematic body with the fields animate keeps
NoPlatform ==
    [exists |-> FALSE, pos |-> ZeroVec, rot |-> 0, next |-> ZeroVec, nextRot |-> 0,
     pending |-> FALSE, kind |-> "none", time |-> 0, currentAngle |-> 0]

NoPlatforms == [h \in PlatformHandles |-> NoPlatform]

\* physicsWorld.createKinematicPlatform(position, ...) with the type set by createPlatforms
CreateKinematicPlatform(position, kind) ==
    [exists |-> TRUE, pos |-> position, rot |-> 0, next |-> position, nextRot |-> 0,
     pending |-> FALSE, kind |-> kind, time |-> 0, currentAngle |-> 0]

\* platform.time counts in units of 1/PU of a period
PU == 10 * TU

\* x of the moving platform: startX + (endX - startX) * (sin(2 pi time) + 1) / 2
MovingX(time) ==
    LET s == SinM(DivT(2 * PI * (time % PU), PU))
        t == (s + DU) \div 2
    IN  8 * TU * VU + DivT(-16 * TU * VU, DU) * t

\* one iteration of the loop of updatePlatforms(dt)
UpdatePlatform(p, dt) ==
    CASE p.exists /\ p.kind = "moving" ->
            LET time == p.time + 3 * dt
            IN  [p EXCEPT !.time = time, !.next = [p.pos EXCEPT !.x = MovingX(time)],
                          !.pending = TRUE]
      [] p.exists /\ p.kind = "rotating" ->
            LET angle == p.currentAngle + DivT(500 * dt, TU)
            IN  [p EXCEPT !.currentAngle = angle, !.nextRot = angle, !.pending = TRUE]
      [] OTHER -> p

\* updatePlatforms(dt)
UpdatePlatformsResult(pbs, dt) == [h \in DOMAIN pbs |-> UpdatePlatform(pbs[h], dt)]

Untracked ==
    [registered |-> FALSE, prevPos |-> ZeroVec, prevRot |-> 0, hasVelocity |-> FALSE,
     linearVelocity |-> ZeroVec, angularVelocityY |-> 0]

CarrierConstructed ==
    [platforms |-> [h \in PlatformHandles |-> Untracked], currentPlatform |-> NullCollider,
     platformVelocity |-> ZeroVec]

\* PlatformCarrier.registerPlatform(collider, body): the entry has no
\* linearVelocity / angularVelocityY field until the first update
RegisterPlatformResult(car, h, pb) ==
    [car EXCEPT !.platforms[h] =
        [registered |-> TRUE, prevPos |-> pb.pos, prevRot |-> pb.rot, hasVelocity |-> FALSE,
         linearVelocity |-> ZeroVec, angularVelocityY |-> 0]]

\* _quatToYaw of a rotation about the Y axis by rot: atan2(sin rot, cos rot)
QuatToYaw(rot) == NormalizeAngle(rot)

\* the yaw delta taken without the two loops
DeltaYaw_Raw(prevRot, currRot) == QuatToYaw(currRot) - QuatToYaw(prevRot)

\* the yaw delta after the two "normalize delta" loops
DeltaYaw(prevRot, currRot) == NormalizeAngle(QuatToYaw(currRot) - QuatToYaw(prevRot))

\* the loop body without the "store for next frame" copies
TrackPlatform_KeepSnapshot(t, pb, dt) ==
    IF ~t.registered THEN t
    ELSE [t EXCEPT !.linearVelocity = Vec(DivT(pb.pos.x - t.prevPos.x, dt),
                                          DivT(pb.pos.y - t.prevPos.y, dt),
                                          DivT(pb.pos.z - t.prevPos.z, dt)),
                   !.angularVelocityY = DivT(DeltaYaw(t.prevRot, pb.rot) * TU, dt),
                   !.hasVelocity = TRUE]

\* one iteration of the loop of PlatformCarrier.update(dt)
TrackPlatform(t, pb, dt) ==
    IF ~t.registered THEN t
    ELSE [t EXCEPT !.linearVelocity = Vec(DivT(pb.pos.x - t.prevPos.x, dt),
                                          DivT(pb.pos.y - t.prevPos.y, dt),
                                          DivT(pb.pos.z - t.prevPos.z, dt)),
                   !.angularVelocityY = DivT(DeltaYaw(t.prevRot, pb.rot) * TU, dt),
                   !.hasVelocity = TRUE,
                   !.prevPos = pb.pos,
                   !.prevRot = pb.rot]

\* PlatformCarrier.update(dt), dt > 0
CarrierUpdateResult(car, pbs, dt) ==
    [car EXCEPT !.platforms = [h \in PlatformHandles |-> TrackPlatform(car.platforms[h], pbs[h], dt)]]

\* the tangential velocity omega x r of getPlatformVelocity (omega in mrad/s)
Tangent(omega, platformPos, characterPos) ==
    LET dx == DivT(characterPos.x - platformPos.x, TU)
        dz == DivT(characterPos.z - platformPos.z, TU)
    IN  Vec(DivT(-dz * omega, 1000), 0, DivT(dx * omega, 1000))

\* the query without the reset of currentPlatform on entry
GetPlatformVelocityResult_KeepCurrent(car, pbs, collider, characterPos) ==
    IF collider = NullCollider \/ ~car.platforms[collider].registered
    THEN [carrier |-> [car EXCEPT !.platformVelocity = ZeroVec], velocity |-> ZeroVec,
          threw |-> FALSE]
    ELSE [carrier |-> [car EXCEPT !.currentPlatform = collider,
                                  !.platformVelocity = car.platforms[collider].linearVelocity],
          velocity |-> car.platforms[collider].linearVelocity,
          threw |-> ~car.platforms[collider].hasVelocity]

\* PlatformCarrier.getPlatformVelocity(groundCollider, characterPos):
\* threw marks the TypeError of copy(undefined) on an entry that has no velocity yet
GetPlatformVelocityResult(car, pbs, collider, characterPos) ==
    LET cleared == [car EXCEPT !.platformVelocity = ZeroVec, !.currentPlatform = NullCollider]
    IN  IF collider = NullCollider \/ ~car.platforms[collider].registered
        THEN [carrier |-> cleared, velocity |-> ZeroVec, threw |-> FALSE]
        ELSE LET t == car.platforms[collider]
                 c == [cleared EXCEPT !.currentPlatform = collider]
             IN  IF ~t.hasVelocity
                 THEN [carrier |-> c, velocity |-> ZeroVec, threw |-> TRUE]
                 ELSE LET v == IF Abs(t.angularVelocityY) > 1
                               THEN VAdd(t.linearVelocity,
                                         Tangent(t.angularVelocityY, pbs[collider].pos, characterPos))
                               ELSE t.linearVelocity
                      IN  [carrier |-> [c EXCEPT !.platformVelocity = v],
                           velocity |-> v, threw |-> FALSE]

(***************************************************************************)
(* InputManager and PlayerController                                       *)
(***************************************************************************)
\* InputManager.getMovementInput(): axes in units of 1/DU, diagonals normalized
GetMovementInput(keys) ==
    LET x   == (IF keys.right THEN 1 ELSE 0) - (IF keys.left THEN 1 ELSE 0)
        z   == (IF keys.backward THEN 1 ELSE 0) - (IF keys.forward THEN 1 ELSE 0)
        len == ISqrt((x * x + z * z) * DU * DU)
    IN  IF len > DU
        THEN [x |-> DivT(x * DU * DU, len), z |-> DivT(z * DU * DU, len)]
        ELSE [x |-> x * DU, z |-> z * DU]

maxAirJumps == 1

\* jumpCooldown is set to 0.2 s by a jump
jumpCooldownTime == TU \div 5

PlayerConstructed ==
    [jumpCooldown |-> 0, airJumpsRemaining |-> maxAirJumps, platformCarrier |-> FALSE]

\* the jump block with an air jump that does not spend airJumpsRemaining
JumpBlock_NoSpend(m, pl, jumpKey, dt) ==
    LET air   == IF m.isGrounded THEN maxAirJumps ELSE pl.airJumpsRemaining
        ready == jumpKey /\ pl.jumpCooldown <= 0
        kind  == IF ready /\ CanJump(m) THEN "ground"
                 ELSE IF ready /\ air > 0 THEN "air"
                 ELSE "none"
        m1    == CASE kind = "ground" -> JumpResult(m, jumpStrength, FALSE)
                   [] kind = "air"    -> JumpResult(m, jumpStrength, TRUE)
                   [] OTHER           -> m
        cd    == IF kind = "none" THEN pl.jumpCooldown ELSE jumpCooldownTime
    IN  [motor  |-> m1,
         player |-> [pl EXCEPT !.airJumpsRemaining = air, !.jumpCooldown = cd - dt],
         jumped |-> kind]

\* the jump block without the cooldown test
JumpBlock_NoCooldown(m, pl, jumpKey, dt) ==
    LET air   == IF m.isGrounded THEN maxAirJumps ELSE pl.airJumpsRemaining
        ready == jumpKey
        kind  == IF ready /\ CanJump(m) THEN "ground"
                 ELSE IF ready /\ air > 0 THEN "air"
                 ELSE "none"
        m1    == CASE kind = "ground" -> JumpResult(m, jumpStrength, FALSE)
                   [] kind = "air"    -> JumpResult(m, jumpStrength, TRUE)
                   [] OTHER           -> m
        air1  == IF kind = "air" THEN air - 1 ELSE air
        cd    == IF kind = "none" THEN pl.jumpCooldown ELSE jumpCooldownTime
    IN  [motor  |-> m1,
         player |-> [pl EXCEPT !.airJumpsRemaining = air1, !.jumpCooldown = cd - dt],
         jumped |-> kind]

\* the "--- Jump ---" block of PlayerController.update, after motor.update:
\* [motor, player, jumped] with jumped one of "none", "ground", "air"
JumpBlock(m, pl, jumpKey, dt) ==
    LET air   == IF m.isGrounded THEN maxAirJumps ELSE pl.airJumpsRemaining
        ready == jumpKey /\ pl.jumpCooldown <= 0
        kind  == IF ready /\ CanJump(m) THEN "ground"
                 ELSE IF ready /\ air > 0 THEN "air"
                 ELSE "none"
        m1    == CASE kind = "ground" -> JumpResult(m, jumpStrength, FALSE)
                   [] kind = "air"    -> JumpResult(m, jumpStrength, TRUE)
                   [] OTHER           -> m
        air1  == IF kind = "air" THEN air - 1 ELSE air
        cd    == IF kind = "none" THEN pl.jumpCooldown ELSE jumpCooldownTime
    IN  [motor  |-> m1,
         player |-> [pl EXCEPT !.airJumpsRemaining = air1, !.jumpCooldown = cd - dt],
         jumped |-> kind]

\* F applied to the value of v, with v evaluated once
Bind(v, F(_)) == CHOOSE r \in {F(x) : x \in {v}} : TRUE

\* an update that hands the first registered platform to the carrier as ground
PlayerUpdateResult_FirstPlatform(pl, inp, cam, car, pbs, m, b, vis, dt, sweep) ==
    LET query == pl.platformCarrier /\ m.inited
        raw   == GetMovementInput(inp.keys)
        move  == [raw EXCEPT !.x = -raw.x]
    IN
    Bind(ApplyInputResult(cam, inp.mouseDelta.x, inp.mouseDelta.y), LAMBDA cam1 :
    Bind(GetPlatformVelocityResult(car, pbs, 1, b.pos), LAMBDA pv :
    Bind(IF query THEN SetPlatformVelocityResult(m, pv.velocity) ELSE m, LAMBDA m1 :
    Bind(MotorUpdateResult(m1, b, dt, move, cam1.yaw, sweep), LAMBDA upd :
    Bind(JumpBlock(upd.motor, pl, inp.keys.jump, dt), LAMBDA jb :
    Bind(IF upd.body.exists THEN upd.body.pos ELSE ZeroVec, LAMBDA pos :
    Bind(GetFacingYaw(jb.motor), LAMBDA facingYaw :
        [player |-> jb.player,
         input |-> [inp EXCEPT !.mouseDelta = [x |-> 0, y |-> 0]],
         camera |-> SetTargetResult(cam1, pos),
         carrier |-> IF query THEN pv.carrier ELSE car,
         motor |-> jb.motor,
         body |-> upd.body,
         visual |-> VisualUpdateResult(vis, dt, pos, facingYaw),
         jumped |-> jb.jumped,
         yawRead |-> cam1.yaw,
         move |-> move,
         afterUpdate |-> upd.motor,
         calls |-> <<"applyInput">>
                   \o (IF query THEN <<"getPlatformVelocity", "setPlatformVelocity">> ELSE <<>>)
                   \o <<"motorUpdate">>
                   \o (IF jb.jumped = "none" THEN <<>> ELSE <<"jump">>)
                   \o <<"visualUpdate", "setTarget">>])))))))

\* PlayerController.update(dt): every object it touches after the call, with
\* the calls it made, in order
PlayerUpdateResult(pl, inp, cam, car, pbs, m, b, vis, dt, sweep) ==
    LET query == pl.platformCarrier /\ m.inited
        raw   == GetMovementInput(inp.keys)
        move  == [raw EXCEPT !.x = -raw.x]
    IN
    Bind(ApplyInputResult(cam, inp.mouseDelta.x, inp.mouseDelta.y), LAMBDA cam1 :
    Bind(GetPlatformVelocityResult(car, pbs, NullCollider, b.pos), LAMBDA pv :
    Bind(IF query THEN SetPlatformVelocityResult(m, pv.velocity) ELSE m, LAMBDA m1 :
    Bind(MotorUpdateResult(m1, b, dt, move, cam1.yaw, sweep), LAMBDA upd :
    Bind(JumpBlock(upd.motor, pl, inp.keys.jump, dt), LAMBDA jb :
    Bind(IF upd.body.exists THEN upd.body.pos ELSE ZeroVec, LAMBDA pos :
    Bind(GetFacingYaw(jb.motor), LAMBDA facingYaw :
        [player |-> jb.player,
         input |-> [inp EXCEPT !.mouseDelta = [x |-> 0, y |-> 0]],
         camera |-> SetTargetResult(cam1, pos),
         carrier |-> IF query THEN pv.carrier ELSE car,
         motor |-> jb.motor,
         body |-> upd.body,
         visual |-> VisualUpdateResult(vis, dt, pos, facingYaw),
         jumped |-> jb.jumped,
         yawRead |-> cam1.yaw,
         move |-> move,
         afterUpdate |-> upd.motor,
         calls |-> <<"applyInput">>
                   \o (IF query THEN <<"getPlatformVelocity", "setPlatformVelocity">> ELSE <<>>)
                   \o <<"motorUpdate">>
                   \o (IF jb.jumped = "none" THEN <<>> ELSE <<"jump">>)
                   \o <<"visualUpdate", "setTarget">>])))))))

(***************************************************************************)
(* State after construction (before any init() call)                       *)
(***************************************************************************)
InputConstructed ==
    [keys  |-> [forward |-> FALSE, backward |-> FALSE, left |-> FALSE, right |-> FALSE,
                jump |-> FALSE],
     mouseDelta |-> [x |-> 0, y |-> 0]]

\* position of animate: pc, the frame's dt, the sub-steps its step call ran, the
\* calls made so far in the frame, the camera yaw and mouse delta the frame began
\* with, the yaw handed to the motor, and the number of frames completed
FrameIdle ==
    [pc |-> "idle", dt |-> 0, steps |-> 0, calls |-> <<>>, yawBefore |-> 0,
     mouse |-> [x |-> 0, y |-> 0], yawRead |-> 0, n |-> 0]

NoOp == [op |-> "none"]

\* History kept for the properties only; no operation reads it.
\*   ops    : operations performed so far (bounds the direct-call specifications)
\*   airSum : sum of the dt of the airborne, input-free updates that followed the
\*            last update that ended grounded; -1 when no such run is in progress
\*   jumped : jump() was called and no update has ended grounded since
\*   airJumps, groundJumps : jumps PlayerController.update performed since it last
\*            observed the motor grounded (that frame's own jump included)
\*   sinceJump : sum of the dt of the frames of PlayerController.update from the
\*            frame of the last jump on (that frame included); -1 before any jump
NoHistory ==
    [ops |-> 0, airSum |-> -1, jumped |-> FALSE, airJumps |-> 0, groundJumps |-> 0,
     sinceJump |-> -1]

Constructed ==
    /\ physics = PhysicsConstructed
    /\ body = NoBody
    /\ motor = MotorConstructed
    /\ player = PlayerConstructed
    /\ input = InputConstructed
    /\ camera = CameraConstructed
    /\ visual = VisualConstructed
    /\ platforms = NoPlatforms
    /\ carrier = CarrierConstructed
    /\ frame = FrameIdle
    /\ last = NoOp
    /\ hist = NoHistory

(***************************************************************************)
(* SchedSpec: PhysicsWorld.init() and PhysicsWorld.step(dt) called         *)
(* directly, with any dt from 0 up to a runaway delta.                     *)
(***************************************************************************)
\* PhysicsWorld.init(): the Rapier world is created
SchedInit ==
    /\ ~physics.world
    /\ physics' = [physics EXCEPT !.world = TRUE]
    /\ last' = [op |-> "physicsInit"]
    /\ UNCHANGED <<body, platforms, motor, player, input, camera, visual, carrier, frame, hist>>

\* PhysicsWorld.step(dt)
SchedStep ==
    \E dt \in 0..MaxStepDt :
        LET r == PhysicsStepResult(physics, body, platforms, dt)
        IN  /\ physics' = r.physics
            /\ body' = r.body
            /\ platforms' = r.platforms
            /\ last' = [op |-> "step", dt |-> dt, world |-> physics.world,
                        before |-> physics.accumulator, added |-> r.added,
                        steps |-> r.steps]
            /\ UNCHANGED <<motor, player, input, camera, visual, carrier, frame, hist>>

SchedNext == SchedInit \/ SchedStep

SchedSpec == Constructed /\ [][SchedNext]_vars

\* C1: on an initialized world every step(dt) call with dt > 0 runs exactly
\* min(maxSubSteps, floor(a / fixedDt)) sub-steps, a being the accumulator right
\* after dt was added, and never more than 5.
C1_SubStepCount ==
    (last.op = "step" /\ last.world /\ last.dt > 0) =>
        /\ last.added = last.before + last.dt
        /\ last.steps = Min(maxSubSteps, last.added \div fixedDt)
        /\ last.steps <= 5

\* a call whose backlog exceeds the cap: more whole ticks were due than were run
C1_Witness ==
    /\ last.op = "step" /\ last.world /\ last.dt > 0
    /\ last.added \div fixedDt > maxSubSteps
    /\ last.steps = maxSubSteps

\* C2: after every step call, whatever dt >= 0 was passed, the accumulator lies
\* in [0, 2 * fixedDt].
C2_AccumulatorBounded ==
    /\ physics.accumulator >= 0
    /\ physics.accumulator <= 2 * fixedDt

\* a runaway delta whose remainder after 5 sub-steps was dropped
C2_Witness ==
    /\ last.op = "step" /\ last.world
    /\ last.added - maxSubSteps * fixedDt > 2 * fixedDt
    /\ physics.accumulator = 0

(***************************************************************************)
(* MotorSpec: the CharacterMotor operations called directly, in any order, *)
(* from the constructed (not yet initialized) motor.                       *)
(***************************************************************************)
\* frame deltas: one 60 Hz tick, 50 ms, and the 0.1 s cap of animate
MotorDts == {TU \div 60, TU \div 20, TU \div 10}

\* input axes as InputManager.getMovementInput returns them (units of 1/DU)
NoMove == [x |-> 0, z |-> 0]
MoveForward == [x |-> 0, z |-> -DU]
MoveDiagonal == [x |-> 707, z |-> -707]

SpawnPosition == Vec(0, 2 * TU * VU, 0)

MotorSpecInit ==
    /\ physics = [PhysicsConstructed EXCEPT !.world = TRUE]
    /\ body = NoBody
    /\ motor = MotorConstructed
    /\ player = PlayerConstructed
    /\ input = InputConstructed
    /\ camera = CameraConstructed
    /\ visual = VisualConstructed
    /\ platforms = NoPlatforms
    /\ carrier = CarrierConstructed
    /\ frame = FrameIdle
    /\ last = NoOp
    /\ hist = NoHistory

\* speeds the fixed-point arithmetic can carry without overflow
MaxModelSpeed == 100 * VU

MotorOpAllowed ==
    /\ hist.ops < MaxMotorOps
    /\ Abs(motor.velocity.x) <= MaxModelSpeed
    /\ Abs(motor.velocity.z) <= MaxModelSpeed

\* what the motor looked like before the operation
Snapshot(m) == m

\* CharacterMotor.init(position)
MotorInit ==
    /\ MotorOpAllowed
    /\ ~motor.inited
    /\ LET r == MotorInitResult(motor, SpawnPosition)
       IN  /\ motor' = r.motor
           /\ body' = r.body
    /\ last' = [op |-> "init", pre |-> Snapshot(motor)]
    /\ hist' = [hist EXCEPT !.ops = @ + 1, !.airSum = -1]
    /\ UNCHANGED <<physics, platforms, player, input, camera, visual, carrier, frame>>

\* the coyote run after an update: started by a grounded end, extended by an
\* airborne input-free update, dropped otherwise
AirSumAfter(h, m, m1, dt, moved) ==
    IF ~m.inited THEN -1
    ELSE IF m1.isGrounded THEN 0
    ELSE IF h.airSum >= 0 /\ ~moved THEN h.airSum + dt
    ELSE -1

\* an update that ends grounded closes the period opened by a jump
JumpedAfter(h, m, m1) == h.jumped /\ ~(m.inited /\ m1.isGrounded)

\* CharacterMotor.update(dt, inputDir, cameraYaw)
MotorUpdate ==
    /\ MotorOpAllowed
    /\ \E dt \in MotorDts, mv \in {NoMove, MoveForward}, sweep \in SweepOutcomes :
        LET r == MotorUpdateResult(motor, body, dt, mv, camera.yaw, sweep)
        IN  /\ motor' = r.motor
            /\ body' = r.body
            /\ last' = [op |-> "update", pre |-> Snapshot(motor), dt |-> dt,
                        move |-> mv, yaw |-> camera.yaw, sweep |-> sweep]
            /\ hist' = [hist EXCEPT !.ops = @ + 1,
                                    !.airSum = AirSumAfter(hist, motor, r.motor, dt, mv # NoMove),
                                    !.jumped = JumpedAfter(hist, motor, r.motor)]
    /\ UNCHANGED <<physics, platforms, player, input, camera, visual, carrier, frame>>

\* CharacterMotor.jump(strength, allowAir)
MotorJump ==
    /\ MotorOpAllowed
    /\ \E allowAir \in BOOLEAN :
        /\ motor' = JumpResult(motor, jumpStrength, allowAir)
        /\ last' = [op |-> "jump", pre |-> Snapshot(motor), strength |-> jumpStrength,
                    allowAir |-> allowAir]
    /\ hist' = [hist EXCEPT !.ops = @ + 1, !.airSum = -1, !.jumped = TRUE]
    /\ UNCHANGED <<physics, body, platforms, player, input, camera, visual, carrier, frame>>

\* CharacterMotor.teleport(position)
MotorTeleport ==
    /\ MotorOpAllowed
    /\ \E p \in {Vec(TU * VU, 2 * TU * VU, 0)} :
        LET r == TeleportResult(motor, body, p)
        IN  /\ motor' = r.motor
            /\ body' = r.body
            /\ last' = [op |-> "teleport", pre |-> Snapshot(motor), position |-> p]
    /\ hist' = [hist EXCEPT !.ops = @ + 1, !.airSum = -1]
    /\ UNCHANGED <<physics, platforms, player, input, camera, visual, carrier, frame>>

\* CharacterMotor.setPlatformVelocity(velocity)
MotorSetPlatformVelocity ==
    /\ MotorOpAllowed
    /\ \E v \in {ZeroVec, Vec(2 * VU, 0, 0)} :
        /\ motor' = SetPlatformVelocityResult(motor, v)
        /\ last' = [op |-> "setPlatformVelocity", pre |-> Snapshot(motor), velocity |-> v]
    /\ hist' = [hist EXCEPT !.ops = @ + 1, !.airSum = -1]
    /\ UNCHANGED <<physics, body, platforms, player, input, camera, visual, carrier, frame>>

MotorNext ==
    \/ MotorInit
    \/ MotorUpdate
    \/ MotorJump
    \/ MotorTeleport
    \/ MotorSetPlatformVelocity

MotorSpec == MotorSpecInit /\ [][MotorNext]_vars

\* C5: after an update that ended grounded, over a run of airborne updates with no
\* input and no jump, canJump() is true exactly while the summed dt of the airborne
\* updates is below coyoteTime, and false from the update at which the sum reaches it.
C5_CoyoteWindow ==
    hist.airSum >= 0 => (CanJump(motor) <=> hist.airSum < coyoteTime)

\* the airborne update at which the summed dt reaches coyoteTime exactly
C5_Witness ==
    /\ last.op = "update"
    /\ hist.airSum = coyoteTime
    /\ last.pre.groundedTimer > 0
    /\ last.pre.groundedTimer < coyoteTime
    /\ ~CanJump(motor)

\* C6: jump(strength, allowAir) takes effect iff canJump() or allowAir; then
\* velocity.y = strength, groundedTimer = 0, isGrounded = FALSE and the horizontal
\* velocity is kept; otherwise nothing changes.  After a jump canJump() is false
\* until an update ends grounded.
C6_JumpEffect ==
    /\ last.op = "jump" =>
          IF last.pre.groundedTimer > 0 \/ last.allowAir
          THEN /\ motor.velocity.y = last.strength
               /\ motor.groundedTimer = 0
               /\ motor.isGrounded = FALSE
               /\ motor.velocity.x = last.pre.velocity.x
               /\ motor.velocity.z = last.pre.velocity.z
               /\ motor.platformVelocity = last.pre.platformVelocity
               /\ motor.inited = last.pre.inited
          ELSE motor = last.pre
    /\ hist.jumped => ~CanJump(motor)

\* a coyote/ground jump (allowAir = FALSE) taken while moving horizontally
C6_Witness ==
    /\ last.op = "jump"
    /\ ~last.allowAir
    /\ last.pre.groundedTimer > 0
    /\ last.pre.velocity.z # 0
    /\ motor.velocity.y = jumpStrength
    /\ motor.velocity.z = last.pre.velocity.z

\* C10 (as claimed): before init, update, jump, teleport and setPlatformVelocity
\* leave velocity, isGrounded, groundedTimer and platformVelocity unchanged.
C10_UninitializedNoOp ==
    (last.op \in {"update", "jump", "teleport", "setPlatformVelocity"} /\ ~last.pre.inited) =>
        /\ motor.velocity = last.pre.velocity
        /\ motor.isGrounded = last.pre.isGrounded
        /\ motor.groundedTimer = last.pre.groundedTimer
        /\ motor.platformVelocity = last.pre.platformVelocity

\* update and teleport on the uninitialized motor do return without a change
C10_Witness ==
    /\ last.op \in {"update", "teleport"}
    /\ ~last.pre.inited
    /\ motor = last.pre
    /\ body = NoBody

(***************************************************************************)
(* BlendSpec: an initialized motor at rest, then CharacterMotor.update     *)
(* with one constant full input, for the frame deltas animate can pass.    *)
(***************************************************************************)
\* frame deltas: 60 Hz, 40 Hz, 20 Hz and the 0.1 s cap of animate
BlendDts == {TU \div 60, TU \div 40, TU \div 20, TU \div 10}

MotorAtRest(grounded) ==
    [MotorConstructed EXCEPT !.inited = TRUE, !.isGrounded = grounded,
                             !.groundedTimer = IF grounded THEN coyoteTime ELSE 0]

SpawnedBody == KinematicBody(SpawnPosition)

\* the motor right after init (airborne) or after a first update that ended grounded;
\* hist.move is the input held for the whole run, camera.yaw the camera direction
BlendSpecInit ==
    /\ physics = [PhysicsConstructed EXCEPT !.world = TRUE]
    /\ body = SpawnedBody
    /\ \E g \in BOOLEAN : motor = MotorAtRest(g)
    /\ player = PlayerConstructed
    /\ input = InputConstructed
    /\ \E yaw \in {0, 1, 2} : camera = [CameraConstructed EXCEPT !.yaw = yaw]
    /\ visual = VisualConstructed
    /\ platforms = NoPlatforms
    /\ carrier = CarrierConstructed
    /\ frame = FrameIdle
    /\ last = NoOp
    /\ \E mv \in {MoveForward, MoveDiagonal} :
          hist = [ops |-> 0, airSum |-> -1, jumped |-> FALSE, airJumps |-> 0,
                  groundJumps |-> 0, move |-> mv]

\* CharacterMotor.update(dt, inputDir, cameraYaw) with the held input
BlendUpdate ==
    /\ hist.ops < MaxBlendOps
    /\ Abs(motor.velocity.x) <= MaxModelSpeed
    /\ Abs(motor.velocity.z) <= MaxModelSpeed
    /\ \E dt \in BlendDts, g \in BOOLEAN :
        LET sweep == [mode |-> "floor", grounded |-> g]
            r     == MotorUpdateResult(motor, body, dt, hist.move, camera.yaw, sweep)
        IN  /\ motor' = r.motor
            /\ body' = r.body
            /\ last' = [op |-> "update", pre |-> Snapshot(motor), dt |-> dt,
                        move |-> hist.move, yaw |-> camera.yaw, sweep |-> sweep]
    /\ hist' = [hist EXCEPT !.ops = @ + 1]
    /\ UNCHANGED <<physics, platforms, player, input, camera, visual, carrier, frame>>

BlendNext == BlendUpdate

BlendSpec == BlendSpecInit /\ [][BlendNext]_vars

SpeedSq(v) == v.x * v.x + v.z * v.z

\* squared distance of the horizontal velocity from the target velocity
GapSq(v, mv, yaw) ==
    LET t == TargetVel(DesiredDir(mv, yaw))
    IN  (t.x - v.x) * (t.x - v.x) + (t.z - v.z) * (t.z - v.z)

\* C8 (as claimed): from rest, under constant full input, the horizontal speed
\* after every update never exceeds maxSpeed and gets no farther from the target,
\* for every dt in (0, 0.1], grounded or airborne; at the target it stays.
C8_BlendNeverOvershoots ==
    last.op = "update" =>
        /\ SpeedSq(motor.velocity) <= maxSpeed * maxSpeed
        /\ GapSq(motor.velocity, last.move, last.yaw) <= GapSq(last.pre.velocity, last.move, last.yaw)

\* the part of C8 the code keeps: at dt = 1/acceleration the blend lands on the
\* target, and an update from the target velocity leaves it unchanged
C8_Witness ==
    /\ last.op = "update"
    /\ GapSq(last.pre.velocity, last.move, last.yaw) = 0
    /\ GapSq(motor.velocity, last.move, last.yaw) = 0
    /\ SpeedSq(motor.velocity) > 0

(***************************************************************************)
(* FrictionSpec: CharacterMotor.update with no input on a grounded motor   *)
(* that moves with some horizontal velocity v0.                            *)
(***************************************************************************)
\* Horizontal speeds per axis (velocity units) that the blend from rest reaches
\* with a suitable dt: v = maxSpeed * acceleration * dt along the held direction.
FrictionSpeeds == {0, 9, 13, 15, 60, 6 * VU}

FrictionSpecInit ==
    /\ physics = [PhysicsConstructed EXCEPT !.world = TRUE]
    /\ body = SpawnedBody
    /\ \E vx \in FrictionSpeeds, vz \in FrictionSpeeds, sx \in {-1, 1} :
          motor = [MotorAtRest(TRUE) EXCEPT !.velocity = Vec(sx * vx, 0, vz)]
    /\ player = PlayerConstructed
    /\ input = InputConstructed
    /\ camera = CameraConstructed
    /\ visual = VisualConstructed
    /\ platforms = NoPlatforms
    /\ carrier = CarrierConstructed
    /\ frame = FrameIdle
    /\ last = NoOp
    /\ hist = NoHistory

\* CharacterMotor.update(dt, {x: 0, z: 0}, cameraYaw)
FrictionUpdate ==
    /\ hist.ops < MaxFrictionOps
    /\ \E dt \in MotorDts, g \in BOOLEAN :
        LET sweep == [mode |-> "floor", grounded |-> g]
            r     == MotorUpdateResult(motor, body, dt, NoMove, camera.yaw, sweep)
        IN  /\ motor' = r.motor
            /\ body' = r.body
            /\ last' = [op |-> "update", pre |-> Snapshot(motor), dt |-> dt,
                        move |-> NoMove, yaw |-> camera.yaw, sweep |-> sweep]
    /\ hist' = [hist EXCEPT !.ops = @ + 1]
    /\ UNCHANGED <<physics, platforms, player, input, camera, visual, carrier, frame>>

FrictionNext == FrictionUpdate

FrictionSpec == FrictionSpecInit /\ [][FrictionNext]_vars

\* v0 scaled by exp(-friction * dt), per axis
Decayed(v, dt) ==
    [x |-> DivT(v.x * FrictionFactor(TRUE, dt), FU), z |-> DivT(v.z * FrictionFactor(TRUE, dt), FU)]

\* C9 (as claimed): a grounded, input-free update leaves the horizontal velocity at
\* v0 * exp(-friction * dt) while the resulting speed is at least 0.01, and at
\* exactly zero once the resulting speed is below 0.01, whatever the direction.
C9_FrictionSnapBySpeed ==
    (last.op = "update" /\ last.pre.isGrounded) =>
        LET d == Decayed(last.pre.velocity, last.dt)
        IN  IF SpeedSq(d) >= stopEpsilon * stopEpsilon
            THEN motor.velocity.x = d.x /\ motor.velocity.z = d.z
            ELSE motor.velocity.x = 0 /\ motor.velocity.z = 0

\* along one axis the code does what C9 says: decay, then the snap to zero
C9_Witness ==
    /\ last.op = "update" /\ last.pre.isGrounded
    /\ last.pre.velocity.x = 0
    /\ last.pre.velocity.z > 0
    /\ motor.velocity.z = 0

(***************************************************************************)
(* The state after init() of the demo: world created, the two carried      *)
(* platforms created and registered, the motor initialized at the spawn    *)
(* point, the controller wired to the carrier.                             *)
(***************************************************************************)
MovingPlatform == CreateKinematicPlatform(Vec(8 * TU * VU, (TU * VU) \div 2, 0), "moving")

RotatingPlatform == CreateKinematicPlatform(Vec(0, (TU * VU) \div 2, -10 * TU * VU), "rotating")

ScenePlatforms == [h \in PlatformHandles |-> IF h = 1 THEN MovingPlatform ELSE RotatingPlatform]

SceneCarrier ==
    RegisterPlatformResult(RegisterPlatformResult(CarrierConstructed, 1, MovingPlatform),
                           2, RotatingPlatform)

Started ==
    /\ physics = [PhysicsConstructed EXCEPT !.world = TRUE]
    /\ body = SpawnedBody
    /\ motor = MotorInitResult(MotorConstructed, SpawnPosition).motor
    /\ player = [PlayerConstructed EXCEPT !.platformCarrier = TRUE]
    /\ input = InputConstructed
    /\ camera = CameraConstructed
    /\ visual = VisualConstructed
    /\ platforms = ScenePlatforms
    /\ carrier = SceneCarrier
    /\ frame = FrameIdle
    /\ last = NoOp
    /\ hist = NoHistory

\* what the character controller's sweep answers in the frame specifications:
\* free fall, or standing on a floor
FrameSweeps == {[mode |-> "free", grounded |-> FALSE], [mode |-> "floor", grounded |-> TRUE]}

(***************************************************************************)
(* PlayerSpec: PlayerController.update called frame after frame, with the  *)
(* jump key pressed and released between frames.                           *)
(***************************************************************************)
\* frame deltas: 30 Hz and the 0.1 s cap of animate
PlayerDts == {TU \div 30, TU \div 10}

\* InputManager._onKeyDown for the jump key
PlayerKeyDown ==
    /\ ~input.keys.jump
    /\ input' = [input EXCEPT !.keys.jump = TRUE]
    /\ last' = [op |-> "keyDown"]
    /\ UNCHANGED <<physics, body, platforms, motor, player, camera, visual, carrier, frame, hist>>

\* InputManager._onKeyUp for the jump key
PlayerKeyUp ==
    /\ input.keys.jump
    /\ input' = [input EXCEPT !.keys.jump = FALSE]
    /\ last' = [op |-> "keyUp"]
    /\ UNCHANGED <<physics, body, platforms, motor, player, camera, visual, carrier, frame, hist>>

\* the jumps counted since the motor was last observed grounded
JumpsAfter(n, grounded, counted) == (IF grounded THEN 0 ELSE n) + (IF counted THEN 1 ELSE 0)

\* PlayerController.update(dt)
PlayerUpdate ==
    /\ hist.ops < MaxPlayerFrames
    /\ \E dt \in PlayerDts, sweep \in FrameSweeps :
        LET r == PlayerUpdateResult(player, input, camera, carrier, platforms, motor, body,
                                    visual, dt, sweep)
        IN  /\ player' = r.player
            /\ input' = r.input
            /\ camera' = r.camera
            /\ carrier' = r.carrier
            /\ motor' = r.motor
            /\ body' = r.body
            /\ visual' = r.visual
            /\ last' = [op |-> "playerUpdate", dt |-> dt, jumped |-> r.jumped,
                        grounded |-> r.afterUpdate.isGrounded,
                        couldJump |-> CanJump(r.afterUpdate),
                        key |-> input.keys.jump,
                        cooldown |-> player.jumpCooldown,
                        airBefore |-> player.airJumpsRemaining,
                        calls |-> r.calls, since |-> hist.sinceJump]
            /\ hist' = [hist EXCEPT
                          !.ops = @ + 1,
                          !.sinceJump = IF r.jumped # "none" THEN dt
                                        ELSE IF @ >= 0 THEN @ + dt ELSE @,
                          !.airJumps = JumpsAfter(@, r.afterUpdate.isGrounded, r.jumped = "air"),
                          !.groundJumps = JumpsAfter(@, r.afterUpdate.isGrounded, r.jumped = "ground")]
    /\ UNCHANGED <<physics, platforms, frame>>

PlayerNext == PlayerKeyDown \/ PlayerKeyUp \/ PlayerUpdate

PlayerSpec == Started /\ [][PlayerNext]_vars

\* C7: between two frames in which update observes the motor grounded at most
\* maxAirJumps air jumps and at most one ground-or-coyote jump are performed, an
\* air jump is performed only in a frame where canJump() is false, and the
\* counter of remaining air jumps stays within 0..maxAirJumps.
C7_OneAirJumpPerAirbornePeriod ==
    /\ hist.airJumps <= maxAirJumps
    /\ hist.groundJumps <= 1
    /\ player.airJumpsRemaining \in 0..maxAirJumps
    /\ (last.op = "playerUpdate" /\ last.jumped = "air") => ~last.couldJump

\* an airborne period that holds a ground jump and then, the cooldown over, the
\* one air jump
C7_Witness ==
    /\ last.op = "playerUpdate"
    /\ last.jumped = "air"
    /\ hist.groundJumps = 1
    /\ hist.airJumps = 1
    /\ player.airJumpsRemaining = 0

(***************************************************************************)
(* Spec: the frame loop animate, one action per statement of its body,     *)
(* with mouse movement arriving between frames.                            *)
(***************************************************************************)
\* frame deltas: 120 Hz, 60 Hz, 30 Hz and the 0.1 s cap (0, 1, 2 and 5 sub-steps)
FrameDts == {TU \div 120, TU \div 60, TU \div 30, TU \div 10}

\* raycast answers for the camera collision check (millimetres)
FrameHits == {NoHit, 3 * 1000}

Init == Started

\* InputManager._onMouseMove while the pointer is locked: an eighth of a turn of
\* yaw and one radian of pitch, already scaled by the sensitivity
MouseMove ==
    /\ frame.pc = "idle"
    /\ input.mouseDelta.x = 0
    /\ input' = [input EXCEPT !.mouseDelta = [x |-> @.x + 1, y |-> @.y + 1000]]
    /\ last' = [op |-> "mouseMove"]
    /\ UNCHANGED <<physics, body, platforms, motor, player, camera, visual, carrier, frame, hist>>

\* animate: dt = min(clock.getDelta(), 0.1); updatePlatforms(dt)
AnimateStart ==
    /\ frame.pc = "idle"
    /\ frame.n < MaxFrames
    /\ \E dt \in FrameDts :
        /\ platforms' = UpdatePlatformsResult(platforms, dt)
        /\ frame' = [frame EXCEPT !.pc = "platforms", !.dt = dt, !.steps = 0,
                                  !.calls = <<"updatePlatforms">>,
                                  !.yawBefore = camera.yaw, !.mouse = input.mouseDelta]
        /\ last' = [op |-> "updatePlatforms", dt |-> dt]
    /\ UNCHANGED <<physics, body, motor, player, input, camera, visual, carrier, hist>>

\* the frame loop with the carrier update left out
AnimateStep_SkipsCarrier ==
    /\ frame.pc = "platforms"
    /\ LET r == PhysicsStepResult(physics, body, platforms, frame.dt)
       IN  /\ physics' = r.physics
           /\ body' = r.body
           /\ platforms' = r.platforms
           /\ frame' = [frame EXCEPT !.pc = "carried", !.steps = r.steps,
                                     !.calls = Append(@, "step")]
           /\ last' = [op |-> "step", dt |-> frame.dt, world |-> physics.world,
                       before |-> physics.accumulator, added |-> r.added, steps |-> r.steps]
    /\ UNCHANGED <<motor, player, input, camera, visual, carrier, hist>>

\* animate: physicsWorld.step(dt)
AnimateStep ==
    /\ frame.pc = "platforms"
    /\ LET r == PhysicsStepResult(physics, body, platforms, frame.dt)
       IN  /\ physics' = r.physics
           /\ body' = r.body
           /\ platforms' = r.platforms
           /\ frame' = [frame EXCEPT !.pc = "stepped", !.steps = r.steps,
                                     !.calls = Append(@, "step")]
           /\ last' = [op |-> "step", dt |-> frame.dt, world |-> physics.world,
                       before |-> physics.accumulator, added |-> r.added, steps |-> r.steps]
    /\ UNCHANGED <<motor, player, input, camera, visual, carrier, hist>>

\* animate: platformCarrier.update(dt)
AnimateCarrier ==
    /\ frame.pc = "stepped"
    /\ carrier' = CarrierUpdateResult(carrier, platforms, frame.dt)
    /\ frame' = [frame EXCEPT !.pc = "carried", !.calls = Append(@, "carrierUpdate")]
    /\ last' = [op |-> "carrierUpdate", dt |-> frame.dt, pre |-> carrier]
    /\ UNCHANGED <<physics, body, platforms, motor, player, input, camera, visual, hist>>

\* animate: playerController.update(dt)
AnimatePlayerUpdate ==
    /\ frame.pc = "carried"
    /\ \E sweep \in FrameSweeps :
        LET r == PlayerUpdateResult(player, input, camera, carrier, platforms, motor, body,
                                    visual, frame.dt, sweep)
        IN  /\ player' = r.player
            /\ input' = r.input
            /\ camera' = r.camera
            /\ carrier' = r.carrier
            /\ motor' = r.motor
            /\ body' = r.body
            /\ visual' = r.visual
            /\ frame' = [frame EXCEPT !.pc = "played", !.calls = @ \o r.calls,
                                      !.yawRead = r.yawRead]
            /\ last' = [op |-> "playerUpdate", dt |-> frame.dt, jumped |-> r.jumped,
                        grounded |-> r.afterUpdate.isGrounded,
                        couldJump |-> CanJump(r.afterUpdate),
                        key |-> input.keys.jump,
                        cooldown |-> player.jumpCooldown,
                        airBefore |-> player.airJumpsRemaining]
    /\ UNCHANGED <<physics, platforms, hist>>

\* animate: playerController.lateUpdate(dt, scene), then the rest of the frame
\* (rendering and debug output, which keep the simulation state)
AnimateLateUpdate ==
    /\ frame.pc = "played"
    /\ \E hit \in FrameHits :
        /\ camera' = CameraUpdateResult(camera, frame.dt, hit)
        /\ last' = [op |-> "cameraUpdate", dt |-> frame.dt, hit |-> hit]
    /\ frame' = [frame EXCEPT !.pc = "idle", !.calls = Append(@, "cameraUpdate"), !.n = @ + 1]
    /\ UNCHANGED <<physics, body, platforms, motor, player, input, visual, carrier, hist>>

Next ==
    \/ MouseMove
    \/ AnimateStart
    \/ AnimateStep
    \/ AnimateCarrier
    \/ AnimatePlayerUpdate
    \/ AnimateLateUpdate

Spec == Init /\ [][Next]_vars

\* number of times a call occurs in a frame's call list
Count(calls, name) == Len(SelectSeq(calls, LAMBDA c : c = name))

FrameDone == frame.pc = "idle" /\ frame.n > 0

\* C3 (as claimed): in a frame, PlatformCarrier.update is called once for each
\* fixed tick the scheduler ran: never with zero sub-steps, and once per sub-step
\* when several ran.
C3_CarrierUpdatePerTick ==
    FrameDone => Count(frame.calls, "carrierUpdate") = frame.steps

\* a completed frame whose step call ran no sub-step: the moving platform has a
\* new target it has not moved to, and the one carrier update of the frame
\* recorded a zero velocity for it
C3_Witness ==
    /\ FrameDone
    /\ frame.steps = 0
    /\ Count(frame.calls, "carrierUpdate") = 1
    /\ platforms[1].pending
    /\ platforms[1].next # platforms[1].pos
    /\ carrier.platforms[1].hasVelocity
    /\ carrier.platforms[1].linearVelocity = ZeroVec

\* the four calls C4 orders, as they occur in a frame's call list
Ordered(calls) ==
    SelectSeq(calls, LAMBDA c : c \in {"step", "carrierUpdate", "motorUpdate", "cameraUpdate"})

\* C4: every completed frame has called step, PlatformCarrier.update,
\* CharacterMotor.update and CameraRig.update exactly once each and in this order,
\* and the yaw the motor update read is the yaw after applyInput took the frame's
\* mouse delta.
C4_FrameOrder ==
    FrameDone =>
        /\ Ordered(frame.calls) = <<"step", "carrierUpdate", "motorUpdate", "cameraUpdate">>
        /\ Count(frame.calls, "applyInput") = 1
        /\ frame.yawRead = frame.yawBefore - frame.mouse.x
        /\ camera.yaw = frame.yawRead

\* a completed frame that began with a pending mouse delta and ran several sub-steps
C4_Witness ==
    /\ FrameDone
    /\ frame.mouse.x # 0
    /\ frame.steps > 1
    /\ frame.yawRead # frame.yawBefore

(***************************************************************************)
(* CarrySpec: the frame pipeline (physics step, PlatformCarrier.update,    *)
(* PlayerController.update) with the character standing at rest on a       *)
(* registered platform that its owner drives at a constant (2, 0, 0) m/s.  *)
(***************************************************************************)
\* tick lengths: one and two fixed steps
CarryDts == {TU \div 60, TU \div 30}

CarryVelocity == Vec(2 * VU, 0, 0)

\* the platform under the spawn point
CarryPlatform == CreateKinematicPlatform(Vec(0, (TU * VU) \div 2, 0), "driven")

CarryInit ==
    /\ physics = [PhysicsConstructed EXCEPT !.world = TRUE]
    /\ body = SpawnedBody
    /\ motor = MotorAtRest(TRUE)
    /\ player = [PlayerConstructed EXCEPT !.platformCarrier = TRUE]
    /\ input = InputConstructed
    /\ camera = CameraConstructed
    /\ visual = VisualConstructed
    /\ platforms = [h \in PlatformHandles |-> IF h = 1 THEN CarryPlatform ELSE NoPlatform]
    /\ carrier = RegisterPlatformResult(CarrierConstructed, 1, CarryPlatform)
    /\ frame = FrameIdle
    /\ last = NoOp
    /\ hist = NoHistory

\* the platform's owner: body.setNextKinematicTranslation(pos + velocity * dt)
CarryDrive ==
    /\ frame.pc = "idle"
    /\ frame.n < MaxCarryTicks
    /\ \E dt \in CarryDts :
        /\ platforms' = [platforms EXCEPT
                           ![1].next = VAdd(platforms[1].pos,
                                            Vec(CarryVelocity.x * dt, CarryVelocity.y * dt,
                                                CarryVelocity.z * dt)),
                           ![1].pending = TRUE]
        /\ frame' = [frame EXCEPT !.pc = "platforms", !.dt = dt, !.steps = 0, !.calls = <<>>]
        /\ last' = [op |-> "drive", dt |-> dt]
    /\ UNCHANGED <<physics, body, motor, player, input, camera, visual, carrier, hist>>

\* physicsWorld.step(dt)
CarryStep ==
    /\ frame.pc = "platforms"
    /\ LET r == PhysicsStepResult(physics, body, platforms, frame.dt)
       IN  /\ physics' = r.physics
           /\ body' = r.body
           /\ platforms' = r.platforms
           /\ frame' = [frame EXCEPT !.pc = "stepped", !.steps = r.steps,
                                     !.calls = Append(@, "step")]
           /\ last' = [op |-> "step", dt |-> frame.dt, world |-> physics.world,
                       before |-> physics.accumulator, added |-> r.added, steps |-> r.steps]
    /\ UNCHANGED <<motor, player, input, camera, visual, carrier, hist>>

\* platformCarrier.update(dt)
CarryCarrier ==
    /\ frame.pc = "stepped"
    /\ carrier' = CarrierUpdateResult(carrier, platforms, frame.dt)
    /\ frame' = [frame EXCEPT !.pc = "carried", !.calls = Append(@, "carrierUpdate")]
    /\ last' = [op |-> "carrierUpdate", dt |-> frame.dt, pre |-> carrier]
    /\ UNCHANGED <<physics, body, platforms, motor, player, input, camera, visual, hist>>

\* playerController.update(dt), the sweep unobstructed
CarryPlayer ==
    /\ frame.pc = "carried"
    /\ \E sweep \in FrameSweeps :
        LET r == PlayerUpdateResult(player, input, camera, carrier, platforms, motor, body,
                                    visual, frame.dt, sweep)
        IN  /\ player' = r.player
            /\ input' = r.input
            /\ camera' = r.camera
            /\ carrier' = r.carrier
            /\ motor' = r.motor
            /\ body' = r.body
            /\ visual' = r.visual
            /\ frame' = [frame EXCEPT !.pc = "idle", !.calls = @ \o r.calls, !.n = @ + 1]
            /\ last' = [op |-> "carryPlayer", dt |-> frame.dt, pre |-> Snapshot(motor),
                        measured |-> carrier.platforms[1].linearVelocity,
                        spin |-> carrier.platforms[1].angularVelocityY,
                        sweep |-> sweep]
    /\ UNCHANGED <<physics, platforms, hist>>

CarryNext == CarryDrive \/ CarryStep \/ CarryCarrier \/ CarryPlayer

CarrySpec == CarryInit /\ [][CarryNext]_vars

\* C11 (as claimed): a character at rest on a platform the carrier measured at
\* (2, 0, 0) m/s with no rotation, with no input and an unobstructed sweep, is
\* displaced by 2 * dt in x and by nothing in z in the tick.
C11_PlatformCarry ==
    ( /\ last.op = "carryPlayer"
      /\ last.measured = CarryVelocity
      /\ last.spin = 0
      /\ last.pre.velocity.x = 0 /\ last.pre.velocity.z = 0 ) =>
        /\ body.next.x - body.pos.x = CarryVelocity.x * last.dt
        /\ body.next.z - body.pos.z = 0

\* the tick in question: the platform moved, the carrier measured (2, 0, 0), and the
\* controller's query was answered with the zero vector
C11_Witness ==
    /\ last.op = "carryPlayer"
    /\ last.measured = CarryVelocity
    /\ platforms[1].pos.x > 0
    /\ motor.platformVelocity = ZeroVec
    /\ body.next.x = body.pos.x

(***************************************************************************)
(* CarrierSpec: registerPlatform, update and getPlatformVelocity of the    *)
(* PlatformCarrier called directly, in any order, while the first          *)
(* platform's body is moved and turned between the calls.                  *)
(***************************************************************************)
CarrierHome == Vec(0, (TU * VU) \div 2, 0)

\* translations of the first platform's body
CarrierPositions == {CarrierHome, Vec(2 * TU * VU, (TU * VU) \div 2, 0)}

\* yaws of the first platform's body (milliradians)
CarrierYaws == {0, 1, PI \div 2, -(PI \div 2), PI - 10, -PI + 10}

\* update intervals: one fixed step, and one second
CarrierDts == {TU \div 60, TU}

\* where the character stands: 3 m from the platform centre along x and z
CarrierCharPosition == Vec(3 * TU * VU, 2 * TU * VU, 3 * TU * VU)

CarrierInit ==
    /\ physics = [PhysicsConstructed EXCEPT !.world = TRUE]
    /\ body = NoBody
    /\ motor = MotorConstructed
    /\ player = PlayerConstructed
    /\ input = InputConstructed
    /\ camera = CameraConstructed
    /\ visual = VisualConstructed
    /\ \E yaw \in CarrierYaws :
          platforms = [h \in PlatformHandles |->
                          IF h = 1
                          THEN [CreateKinematicPlatform(CarrierHome, "driven")
                                   EXCEPT !.rot = yaw, !.nextRot = yaw]
                          ELSE CreateKinematicPlatform(Vec(0, (TU * VU) \div 2, -10 * TU * VU),
                                                       "static")]
    /\ carrier = CarrierConstructed
    /\ frame = FrameIdle
    /\ last = NoOp
    /\ hist = NoHistory

\* PlatformCarrier.registerPlatform(collider, body)
CarrierRegister ==
    /\ hist.ops < MaxCarrierOps
    /\ \E h \in PlatformHandles :
        /\ carrier' = RegisterPlatformResult(carrier, h, platforms[h])
        /\ last' = [op |-> "register", collider |-> h, pre |-> carrier]
    /\ hist' = [hist EXCEPT !.ops = @ + 1]
    /\ UNCHANGED <<physics, body, platforms, motor, player, input, camera, visual, frame>>

\* the world moved the first platform's body to a new translation
CarrierMove ==
    /\ hist.ops < MaxCarrierOps
    /\ \E pos \in CarrierPositions :
        /\ pos # platforms[1].pos
        /\ platforms' = [platforms EXCEPT ![1].pos = pos, ![1].next = pos]
        /\ last' = [op |-> "move", pos |-> pos]
    /\ hist' = [hist EXCEPT !.ops = @ + 1]
    /\ UNCHANGED <<physics, body, motor, player, input, camera, visual, carrier, frame>>

\* the world turned the first platform's body to a new yaw
CarrierTurn ==
    /\ hist.ops < MaxCarrierOps
    /\ \E yaw \in CarrierYaws :
        /\ yaw # platforms[1].rot
        /\ platforms' = [platforms EXCEPT ![1].rot = yaw, ![1].nextRot = yaw]
        /\ last' = [op |-> "turn", yaw |-> yaw]
    /\ hist' = [hist EXCEPT !.ops = @ + 1]
    /\ UNCHANGED <<physics, body, motor, player, input, camera, visual, carrier, frame>>

\* PlatformCarrier.update(dt)
CarrierUpdate ==
    /\ hist.ops < MaxCarrierOps
    /\ \E dt \in CarrierDts :
        /\ carrier' = CarrierUpdateResult(carrier, platforms, dt)
        /\ last' = [op |-> "carrierUpdate", dt |-> dt, pre |-> carrier]
    /\ hist' = [hist EXCEPT !.ops = @ + 1]
    /\ UNCHANGED <<physics, body, platforms, motor, player, input, camera, visual, frame>>

\* PlatformCarrier.getPlatformVelocity(groundCollider, characterPos)
CarrierQuery ==
    /\ hist.ops < MaxCarrierOps
    /\ \E c \in {NullCollider} \cup PlatformHandles :
        LET r == GetPlatformVelocityResult(carrier, platforms, c, CarrierCharPosition)
        IN  /\ carrier' = r.carrier
            /\ last' = [op |-> "query", collider |-> c, pre |-> carrier,
                        velocity |-> r.velocity, threw |-> r.threw]
    /\ hist' = [hist EXCEPT !.ops = @ + 1]
    /\ UNCHANGED <<physics, body, platforms, motor, player, input, camera, visual, frame>>

CarrierNext ==
    \/ CarrierRegister
    \/ CarrierMove
    \/ CarrierTurn
    \/ CarrierUpdate
    \/ CarrierQuery

CarrierSpec == CarrierInit /\ [][CarrierNext]_vars

\* the query was for a collider that was registered and had been through an update
TrackedQuery ==
    /\ last.op = "query"
    /\ last.collider # NullCollider
    /\ last.pre.platforms[last.collider].registered
    /\ last.pre.platforms[last.collider].hasVelocity

\* linearVelocity + angularVelocityY * (-dz, 0, dx), whatever angularVelocityY is
FullCarryVelocity(t, platformPos, characterPos) ==
    VAdd(t.linearVelocity, Tangent(t.angularVelocityY, platformPos, characterPos))

\* C12 (as claimed): for a tracked collider the query returns
\* linearVelocity + angularVelocityY * (-dz, 0, dx) for every angularVelocityY,
\* small nonzero values included, with the platform's vertical linear velocity as
\* the vertical component.
C12_TangentForEverySpin ==
    TrackedQuery =>
        /\ last.velocity = FullCarryVelocity(last.pre.platforms[last.collider],
                                             platforms[last.collider].pos, CarrierCharPosition)
        /\ last.velocity.y = last.pre.platforms[last.collider].linearVelocity.y

\* above the 0.001 rad/s threshold the code does return the full formula
C12_Witness ==
    /\ TrackedQuery
    /\ ~last.threw
    /\ Abs(last.pre.platforms[last.collider].angularVelocityY) > 1
    /\ last.velocity = FullCarryVelocity(last.pre.platforms[last.collider],
                                         platforms[last.collider].pos, CarrierCharPosition)
    /\ last.velocity # last.pre.platforms[last.collider].linearVelocity

\* the query was made with null or with a collider the carrier does not track
UntrackedQuery ==
    /\ last.op = "query"
    /\ \/ last.collider = NullCollider
       \/ ~last.pre.platforms[last.collider].registered

\* C13: a query with a null or unregistered collider returns the zero vector,
\* leaves currentPlatform null whatever was current before, raises nothing and
\* keeps every tracked platform's velocity and snapshot.
C13_UntrackedQueryIsZero ==
    UntrackedQuery =>
        /\ last.velocity = ZeroVec
        /\ carrier.platformVelocity = ZeroVec
        /\ carrier.currentPlatform = NullCollider
        /\ ~last.threw
        /\ carrier.platforms = last.pre.platforms

\* a platform was current after the previous query, and an untracked query cleared it
C13_Witness ==
    /\ UntrackedQuery
    /\ last.pre.currentPlatform # NullCollider
    /\ carrier.currentPlatform = NullCollider

\* C14 (as claimed): no getPlatformVelocity call raises an error, in any state
\* reached by registerPlatform, update and getPlatformVelocity in any order.
C14_QueryNeverThrows ==
    last.op = "query" => ~last.threw

\* a query for a platform that was registered and updated is answered
C14_Witness ==
    /\ TrackedQuery
    /\ ~last.threw
    /\ carrier.currentPlatform = last.collider

\* the first platform was tracked when the update ran
TrackedUpdate ==
    /\ last.op = "carrierUpdate"
    /\ last.pre.platforms[1].registered

\* the raw yaw difference the update starts from
RawDelta == QuatToYaw(platforms[1].rot) - QuatToYaw(last.pre.platforms[1].prevRot)

\* the raw difference moved by one turn when it lies outside [-PI, PI]
ShortestDelta(raw) ==
    IF raw > PI THEN raw - 2 * PI ELSE IF raw < -PI THEN raw + 2 * PI ELSE raw

\* C15 (as claimed): the yaw difference is wrapped into the half-open interval
\* (-PI, PI] before the division by dt, a raw difference of exactly -PI included.
C15_WrapHalfOpen ==
    TrackedUpdate =>
        \E d \in (-PI + 1)..PI :
            /\ (d - RawDelta) % (2 * PI) = 0
            /\ carrier.platforms[1].angularVelocityY = DivT(d * TU, last.dt)

\* C15 (amended): the yaw difference is wrapped into the closed interval [-PI, PI]
\* before the division by dt: one turn is subtracted above PI, added below -PI, and
\* a raw difference of exactly -PI is kept as -PI.
C15_WrapClosed ==
    TrackedUpdate =>
        /\ Abs(ShortestDelta(RawDelta)) <= PI
        /\ carrier.platforms[1].angularVelocityY = DivT(ShortestDelta(RawDelta) * TU, last.dt)

\* from yaw PI - 0.01 to -PI + 0.01 over one second: +0.02 rad/s
C15_Witness ==
    /\ TrackedUpdate
    /\ last.dt = TU
    /\ last.pre.platforms[1].prevRot = PI - 10
    /\ platforms[1].rot = -PI + 10
    /\ carrier.platforms[1].angularVelocityY = 20

\* C16: an update that finds a tracked platform where the previous snapshot left it
\* stores zero linear and angular velocity, whatever was stored before; every
\* update replaces the snapshot with the current transform.
C16_ZeroDisplacementZeroVelocity ==
    TrackedUpdate =>
        /\ carrier.platforms[1].prevPos = platforms[1].pos
        /\ carrier.platforms[1].prevRot = platforms[1].rot
        /\ carrier.platforms[1].hasVelocity
        /\ ( /\ platforms[1].pos = last.pre.platforms[1].prevPos
             /\ platforms[1].rot = last.pre.platforms[1].prevRot ) =>
               /\ carrier.platforms[1].linearVelocity = ZeroVec
               /\ carrier.platforms[1].angularVelocityY = 0

\* the platform had moved before (a velocity was stored) and then stood still
C16_Witness ==
    /\ TrackedUpdate
    /\ last.pre.platforms[1].hasVelocity
    /\ last.pre.platforms[1].linearVelocity # ZeroVec
    /\ platforms[1].pos = last.pre.platforms[1].prevPos
    /\ platforms[1].rot = last.pre.platforms[1].prevRot
    /\ carrier.platforms[1].linearVelocity = ZeroVec

(***************************************************************************)
(* CamSpec: the CameraRig operations called directly, in any order, on a   *)
(* rig whose public settings were given values after construction.         *)
(***************************************************************************)
MaxCamOps == 3

\* settings of the rig: the constructor's, a wide and a zero shoulder offset
\* (the shoulder slider), and no collision offset
CamConfigs ==
    { [distance |-> distance, minDistance |-> minDistance,
       shoulderOffset |-> so, collisionOffset |-> co] :
          so \in {0, shoulderOffset}, co \in {collisionOffset} }
    \cup { [distance |-> distance, minDistance |-> minDistance,
            shoulderOffset |-> 3 * 1000, collisionOffset |-> collisionOffset],
           [distance |-> distance, minDistance |-> minDistance,
            shoulderOffset |-> shoulderOffset, collisionOffset |-> 0] }

\* mouse deltas (yaw in eighths of a turn, pitch in milliradians), extreme ones included
CamDeltas == { Vec(1, 100 * 1000, 0), Vec(-1, -100 * 1000, 0), Vec(0, 300, 0), Vec(3, -300, 0) }

CamTargets == { ZeroVec, Vec(2 * TU * VU, 0, TU * VU) }

CamDts == { 0, TU \div 60, TU \div 10 }

\* answers of the raycast: no hit, or a first hit between the pivot and the ray's far end
CamHits(cam) == { NoHit, 0, 3 * 1000, RayLength(cam) }

CamInit ==
    /\ physics = PhysicsConstructed
    /\ body = NoBody
    /\ motor = MotorConstructed
    /\ player = PlayerConstructed
    /\ input = InputConstructed
    /\ visual = VisualConstructed
    /\ platforms = NoPlatforms
    /\ carrier = CarrierConstructed
    /\ frame = FrameIdle
    /\ \E cfg \in CamConfigs :
          camera = [CameraConstructed EXCEPT !.distance = cfg.distance,
                                             !.minDistance = cfg.minDistance,
                                             !.shoulderOffset = cfg.shoulderOffset,
                                             !.collisionOffset = cfg.collisionOffset,
                                             !.currentDistance = cfg.distance]
    /\ last = NoOp
    /\ hist = NoHistory

\* CameraRig.applyInput(deltaX, deltaY)
CamApplyInput ==
    /\ hist.ops < MaxCamOps
    /\ \E d \in CamDeltas :
        /\ camera' = ApplyInputResult(camera, d.x, d.y)
        /\ last' = [op |-> "applyInput", dx |-> d.x, dy |-> d.y, pre |-> camera, prevOp |-> last.op]
    /\ hist' = [hist EXCEPT !.ops = @ + 1]
    /\ UNCHANGED <<physics, body, platforms, motor, player, input, visual, carrier, frame>>

\* CameraRig.setTarget(position)
CamSetTarget ==
    /\ hist.ops < MaxCamOps
    /\ \E t \in CamTargets :
        /\ t # camera.target
        /\ camera' = SetTargetResult(camera, t)
        /\ last' = [op |-> "setTarget", pre |-> camera, prevOp |-> last.op]
    /\ hist' = [hist EXCEPT !.ops = @ + 1]
    /\ UNCHANGED <<physics, body, platforms, motor, player, input, visual, carrier, frame>>

\* CameraRig.update(dt, scene)
CamUpdate ==
    /\ hist.ops < MaxCamOps
    /\ \E dt \in CamDts, hit \in CamHits(camera) :
        /\ camera' = CameraUpdateResult(camera, dt, hit)
        /\ last' = [op |-> "camUpdate", dt |-> dt, hit |-> hit, pre |-> camera,
                    prevOp |-> last.op, safe |-> CheckCollision(camera, hit)]
    /\ hist' = [hist EXCEPT !.ops = @ + 1]
    /\ UNCHANGED <<physics, body, platforms, motor, player, input, visual, carrier, frame>>

\* CameraRig.resetPosition()
CamReset ==
    /\ hist.ops < MaxCamOps
    /\ camera' = ResetPositionResult(camera)
    /\ last' = [op |-> "reset", pre |-> camera, prevOp |-> last.op]
    /\ hist' = [hist EXCEPT !.ops = @ + 1]
    /\ UNCHANGED <<physics, body, platforms, motor, player, input, visual, carrier, frame>>

CamNext ==
    \/ CamApplyInput
    \/ CamSetTarget
    \/ CamUpdate
    \/ CamReset

CamSpec == CamInit /\ [][CamNext]_vars

\* C17: the pitch stays within [minPitch, maxPitch] whatever deltas applyInput is
\* given; each applyInput subtracts dYaw from the yaw and clamps pitch + dPitch;
\* update, setTarget and resetPosition leave yaw and pitch alone.
C17_PitchClamped ==
    /\ minPitch <= camera.pitch
    /\ camera.pitch <= maxPitch
    /\ last.op = "applyInput" =>
          LET sum == last.pre.pitch + last.dy
          IN  /\ camera.yaw = last.pre.yaw - last.dx
              /\ camera.pitch = IF sum > maxPitch THEN maxPitch
                                ELSE IF sum < minPitch THEN minPitch ELSE sum
    /\ last.op \in {"camUpdate", "setTarget", "reset"} =>
          /\ camera.yaw = last.pre.yaw
          /\ camera.pitch = last.pre.pitch

\* from the lowest pitch, an extreme upward delta ends exactly at maxPitch
C17_Witness ==
    /\ last.op = "applyInput"
    /\ last.pre.pitch = minPitch
    /\ last.dy = 100 * 1000
    /\ camera.pitch = maxPitch
    /\ camera.yaw = last.pre.yaw - 1

\* the ray of the last update hit geometry
RayHit ==
    /\ last.op = "camUpdate"
    /\ last.hit # NoHit

\* C18 (as claimed): whenever the ray hits, the safe distance is hitDistance -
\* collisionOffset clamped into [minDistance, distance], for every hit up to the ray
\* length and every setting of distance, minDistance, collisionOffset, shoulderOffset.
C18_SafeDistanceClamped ==
    RayHit =>
        /\ last.safe >= last.pre.minDistance
        /\ last.safe <= last.pre.distance
        /\ last.safe = Clamp(last.hit - last.pre.collisionOffset,
                             last.pre.minDistance, last.pre.distance)

\* a hit close to the pivot is answered with minDistance
C18_Witness ==
    /\ RayHit
    /\ last.hit = 0
    /\ last.safe = last.pre.minDistance

\* the ray of the last update hit geometry nearer than the configured distance
NearHit ==
    /\ RayHit
    /\ last.hit < last.pre.distance
    /\ last.pre.minDistance <= last.pre.distance

\* C19: with minDistance <= distance the current distance is never below
\* minDistance; on a hit nearer than distance an update moves the current distance
\* toward max(minDistance, hit - collisionOffset): it stays between the old value
\* and that target, does not land on the target from elsewhere, and gets strictly
\* closer when dt > 0 and it was a centimetre or more away.
C19_DistanceConverges ==
    /\ camera.minDistance <= camera.distance => camera.currentDistance >= camera.minDistance
    /\ NearHit =>
          LET target == IF last.hit - last.pre.collisionOffset > last.pre.minDistance
                        THEN last.hit - last.pre.collisionOffset ELSE last.pre.minDistance
              old    == last.pre.currentDistance
              new    == camera.currentDistance
          IN  /\ old >= target => (target <= new /\ new <= old)
              /\ old <= target => (old <= new /\ new <= target)
              /\ old # target => new # target
              /\ (last.dt > 0 /\ Abs(old - target) >= 10) =>
                     Abs(new - target) < Abs(old - target)

\* the distance had been pulled in below the target of a later, farther hit
C19_Witness ==
    /\ NearHit
    /\ last.dt > 0
    /\ last.hit = 3 * 1000
    /\ last.pre.currentDistance < last.hit - last.pre.collisionOffset
    /\ camera.currentDistance > last.pre.currentDistance
    /\ camera.currentDistance < last.hit - last.pre.collisionOffset

\* C20 (as claimed): resetPosition sets the current distance to distance and the
\* smoothed position to pivot - forward * distance + right * shoulderOffset, so an
\* update right after it, with no hit, leaves the smoothed position unchanged.
C20_ResetSnapsToDesired ==
    /\ last.op = "reset" =>
          /\ camera.currentDistance = camera.distance
          /\ camera.smoothedPosition = OrbitPosition(camera, camera.distance)
    /\ (last.op = "camUpdate" /\ last.prevOp = "reset" /\ last.hit = NoHit) =>
          camera.smoothedPosition = last.pre.smoothedPosition

\* an update with dt > 0 and no hit ran right after resetPosition
C20_Witness ==
    /\ last.op = "camUpdate"
    /\ last.prevOp = "reset"
    /\ last.hit = NoHit
    /\ last.dt > 0
    /\ last.pre.shoulderOffset = shoulderOffset
    /\ last.pre.currentDistance = last.pre.distance

(***************************************************************************)
(* FacingSpec: CharacterMotor.getFacingYaw() called on a motor holding any  *)
(* of a grid of velocities, the threshold speed included.                  *)
(***************************************************************************)
\* velocity components: 0, 0.06, 0.08 and 0.1 m/s (squares summing to 0.01), 3 m/s
FacingSpeeds == {0, (6 * VU) \div 100, (8 * VU) \div 100, VU \div 10, 3 * VU}

FacingSpecInit ==
    /\ physics = [PhysicsConstructed EXCEPT !.world = TRUE]
    /\ body = SpawnedBody
    /\ \E vx \in FacingSpeeds, vz \in FacingSpeeds, sx \in {-1, 1}, sz \in {-1, 1},
          vy \in {0, -2 * VU}, g \in BOOLEAN :
          motor = [MotorAtRest(g) EXCEPT !.velocity = Vec(sx * vx, vy, sz * vz)]
    /\ player = PlayerConstructed
    /\ input = InputConstructed
    /\ camera = CameraConstructed
    /\ visual = VisualConstructed
    /\ platforms = NoPlatforms
    /\ carrier = CarrierConstructed
    /\ frame = FrameIdle
    /\ last = NoOp
    /\ hist = NoHistory

\* CharacterMotor.getFacingYaw()
FacingQuery ==
    /\ last.op = "none"
    /\ last' = [op |-> "getFacingYaw", yaw |-> GetFacingYaw(motor), pre |-> motor]
    /\ UNCHANGED <<physics, body, platforms, motor, player, input, camera, visual, carrier,
                   frame, hist>>

FacingNext == FacingQuery

FacingSpec == FacingSpecInit /\ [][FacingNext]_vars

\* vel.x^2 + vel.z^2 of the motor the query ran on, in units of 1/(VU*VU)
FacingSpeedSq == last.pre.velocity.x * last.pre.velocity.x + last.pre.velocity.z * last.pre.velocity.z

\* C21 (as claimed): getFacingYaw returns atan2(vx, vz) exactly when the squared
\* horizontal speed exceeds 0.01 and null otherwise, a squared speed of exactly 0.01
\* included; the motor is left as it was.
C21_FacingAboveThreshold ==
    last.op = "getFacingYaw" =>
        /\ motor = last.pre
        /\ last.yaw = IF FacingSpeedSq > facingEpsilonSq
                      THEN Atan2(last.pre.velocity.x, last.pre.velocity.z) ELSE NoFacing

\* C21 (amended): getFacingYaw returns null exactly when the squared horizontal speed
\* is below 0.01, and atan2(vx, vz) when it is 0.01 or more (exactly 0.01 included);
\* the motor is left as it was.
C21_FacingFromThreshold ==
    last.op = "getFacingYaw" =>
        /\ motor = last.pre
        /\ last.yaw = IF FacingSpeedSq >= facingEpsilonSq
                      THEN Atan2(last.pre.velocity.x, last.pre.velocity.z) ELSE NoFacing

\* the velocity (0.06, 0, -0.08) m/s has squared speed exactly 0.01 and gets a yaw
C21_Witness ==
    /\ last.op = "getFacingYaw"
    /\ last.pre.velocity.x = (6 * VU) \div 100
    /\ last.pre.velocity.z = -((8 * VU) \div 100)
    /\ FacingSpeedSq = facingEpsilonSq
    /\ last.yaw # NoFacing
    /\ last.yaw > PI \div 2

(***************************************************************************)
(* BodySpec and TeleportSpec: frames of PhysicsWorld.step(dt) followed by   *)
(* CharacterMotor.update(dt) on a spawned character, for frame deltas below *)
(* at and above the fixed step; TeleportSpec adds PlayerController.teleport *)
(* between frames.                                                          *)
(***************************************************************************)
MaxBodyFrames == 3

\* frame deltas: a 144 Hz display (no sub-step in most frames), 60 Hz and 30 Hz
BodyDts == {TU \div 144, TU \div 60, TU \div 30}

TeleportTargets == {SpawnPosition, Vec(5 * TU * VU, 2 * TU * VU, 5 * TU * VU)}

\* History of the run, in last:
\*   sum    : sum of the corrected displacements of the updates so far
\*   steps  : sub-steps run by the last step call
\*   tele   : "none", "pending" from teleport until a sub-step runs, "landed" right
\*            after the step call that ran it, "done" afterwards
\*   target : the position given to the last teleport
BodyStart ==
    [op |-> "none", sum |-> ZeroVec, steps |-> 0, tele |-> "none", target |-> SpawnPosition]

BodyInit ==
    /\ physics = [PhysicsConstructed EXCEPT !.world = TRUE]
    /\ body = SpawnedBody
    /\ motor = MotorInitResult(MotorConstructed, SpawnPosition).motor
    /\ player = PlayerConstructed
    /\ input = InputConstructed
    /\ camera = CameraConstructed
    /\ visual = VisualConstructed
    /\ platforms = NoPlatforms
    /\ carrier = CarrierConstructed
    /\ frame = FrameIdle
    /\ last = BodyStart
    /\ hist = NoHistory

\* animate: physicsWorld.step(dt)
BodyStep ==
    /\ frame.pc = "idle"
    /\ hist.ops < MaxBodyFrames
    /\ \E dt \in BodyDts :
        LET r == PhysicsStepResult(physics, body, platforms, dt)
        IN  /\ physics' = r.physics
            /\ body' = r.body
            /\ platforms' = r.platforms
            /\ frame' = [frame EXCEPT !.pc = "stepped", !.dt = dt, !.steps = r.steps]
            /\ last' = [last EXCEPT !.op = "step", !.steps = r.steps,
                                    !.tele = IF last.tele = "pending" /\ r.steps > 0
                                             THEN "landed"
                                             ELSE IF last.tele = "landed" THEN "done"
                                             ELSE last.tele]
    /\ UNCHANGED <<motor, player, input, camera, visual, carrier, hist>>

\* animate: characterMotor.update(dt, inputDir, cameraYaw)
BodyUpdate ==
    /\ frame.pc = "stepped"
    /\ \E inputDir \in {NoMove, MoveForward}, sweep \in FrameSweeps :
        LET r == MotorUpdateResult(motor, body, frame.dt, inputDir, camera.yaw, sweep)
        IN  /\ motor' = r.motor
            /\ body' = r.body
            /\ last' = [last EXCEPT !.op = "update",
                                    !.sum = VAdd(last.sum, Vec(r.body.next.x - body.pos.x,
                                                               r.body.next.y - body.pos.y,
                                                               r.body.next.z - body.pos.z)),
                                    !.tele = IF last.tele = "landed" THEN "done" ELSE last.tele]
    /\ frame' = [frame EXCEPT !.pc = "idle", !.n = frame.n + 1]
    /\ hist' = [hist EXCEPT !.ops = @ + 1]
    /\ UNCHANGED <<physics, platforms, player, input, camera, visual, carrier>>

\* PlayerController.teleport(position), between two frames
BodyTeleport ==
    /\ frame.pc = "idle"
    /\ hist.ops < MaxBodyFrames
    /\ last.tele = "none"
    /\ \E position \in TeleportTargets :
        LET r == TeleportResult(motor, body, position)
        IN  /\ motor' = r.motor
            /\ body' = r.body
            /\ visual' = VisualUpdateResult(visual, 0, position, NoFacing)
            /\ camera' = ResetPositionResult(SetTargetResult(camera, position))
            /\ last' = [last EXCEPT !.op = "teleport", !.tele = "pending", !.target = position]
    /\ UNCHANGED <<physics, platforms, player, input, carrier, frame, hist>>

BodyNext ==
    \/ BodyStep
    \/ BodyUpdate

BodySpec == BodyInit /\ [][BodyNext]_vars

TeleportNext ==
    \/ BodyStep
    \/ BodyUpdate
    \/ BodyTeleport

TeleportSpec == BodyInit /\ [][TeleportNext]_vars

\* a step call of a later frame has just run at least one physics tick
Ticked ==
    /\ last.op = "step"
    /\ last.steps > 0
    /\ frame.n > 0

\* C22 (as claimed): once the next physics tick has run, the body position is the
\* spawn position plus the sum of the corrected displacements of all updates so
\* far, whether the frames before ran zero, one or several sub-steps.
C22_DisplacementsAppliedOnce ==
    Ticked => body.pos = VAdd(SpawnPosition, last.sum)

\* two updates, each followed by a tick, both displacements in the body position
C22_Witness ==
    /\ Ticked
    /\ frame.n = 2
    /\ last.sum.y # 0
    /\ body.pos = VAdd(SpawnPosition, last.sum)

\* C28 (as claimed): after teleport(p) the motor velocity is zero, and the body
\* position is p after the first physics tick that follows, however many frames
\* without a sub-step (and updates in them) come in between.
C28_TeleportLands ==
    /\ last.op = "teleport" => motor.velocity = ZeroVec
    /\ (last.op = "step" /\ last.tele = "landed") => body.pos = last.target

\* the character had moved, was teleported, and the next tick put it on the target
C28_Witness ==
    /\ last.op = "step"
    /\ last.tele = "landed"
    /\ last.sum # ZeroVec
    /\ last.target # SpawnPosition
    /\ body.pos = last.target

(***************************************************************************)
(* MotorSpec: the order of reads and writes of the grounded flag in update *)
(***************************************************************************)
\* the last operation was an update of an initialized motor
InitedUpdate ==
    /\ last.op = "update"
    /\ last.pre.inited

\* C23: update takes the acceleration/friction rate and the vertical rule from the
\* grounded flag it finds (left by the previous update or cleared by a jump since),
\* composes and sweeps the movement with the resulting velocity, and only then
\* overwrites the flag with the sweep's answer.
C23_PreviousGroundedDecides ==
    InitedUpdate =>
        LET g    == last.pre.isGrounded
            d    == DesiredDir(last.move, last.yaw)
            h    == IF HasInput(d) THEN Accelerate(last.pre.velocity, d, g, last.dt)
                    ELSE ApplyFriction(last.pre.velocity, g, last.dt)
            fall == last.pre.velocity.y - (gravity * VU * last.dt) \div TU
            vy   == IF g THEN groundBias
                    ELSE IF fall < terminalVelocity THEN terminalVelocity ELSE fall
            mv   == Movement([h EXCEPT !.y = vy], last.pre.platformVelocity, last.dt)
        IN  /\ motor.velocity.x = h.x
            /\ motor.velocity.z = h.z
            /\ motor.velocity.y = IF last.sweep.grounded /\ vy < 0 THEN 0 ELSE vy
            /\ body.next = VAdd(body.pos, Corrected(mv, last.sweep.mode))
            /\ motor.isGrounded = last.sweep.grounded

\* the update after a jump from the ground: the flag was cleared by jump(), so
\* gravity is integrated and the air rate used although the sweep reports ground
C23_Witness ==
    /\ InitedUpdate
    /\ hist.ops = 4
    /\ last.pre.velocity.y = jumpStrength
    /\ ~last.pre.isGrounded
    /\ last.sweep.grounded
    /\ last.move = MoveForward
    /\ motor.velocity.y = jumpStrength - (gravity * VU * last.dt) \div TU
    /\ motor.isGrounded

(***************************************************************************)
(* FallSpec: CharacterMotor.update and jump on an initialized motor that   *)
(* stands, has just jumped, or has been falling for a while.               *)
(***************************************************************************)
MaxFallOps == 2

\* vertical speeds of an airborne motor: after a jump, at the apex, and near and at
\* the terminal velocity
FallSpeeds == {jumpStrength, 0, -50 * VU + VU \div 10, -50 * VU}

\* coyote timers of an airborne motor: just jumped, inside the window, long expired
FallTimers == {0, coyoteTime - TU \div 60, -3 * TU}

FallInit ==
    /\ physics = [PhysicsConstructed EXCEPT !.world = TRUE]
    /\ body = SpawnedBody
    /\ \/ motor = MotorAtRest(TRUE)
       \/ \E vy \in FallSpeeds, t \in FallTimers :
             motor = [MotorAtRest(FALSE) EXCEPT !.velocity.y = vy, !.groundedTimer = t]
    /\ player = PlayerConstructed
    /\ input = InputConstructed
    /\ camera = CameraConstructed
    /\ visual = VisualConstructed
    /\ platforms = NoPlatforms
    /\ carrier = CarrierConstructed
    /\ frame = FrameIdle
    /\ last = NoOp
    /\ hist = NoHistory

\* CharacterMotor.update(dt, {x: 0, z: 0}, cameraYaw)
FallUpdate ==
    /\ hist.ops < MaxFallOps
    /\ \E dt \in MotorDts, sweep \in SweepOutcomes :
        LET r == MotorUpdateResult(motor, body, dt, NoMove, camera.yaw, sweep)
        IN  /\ motor' = r.motor
            /\ body' = r.body
            /\ last' = [op |-> "update", pre |-> Snapshot(motor), dt |-> dt,
                        move |-> NoMove, yaw |-> camera.yaw, sweep |-> sweep]
    /\ hist' = [hist EXCEPT !.ops = @ + 1]
    /\ UNCHANGED <<physics, platforms, player, input, camera, visual, carrier, frame>>

\* CharacterMotor.jump(strength, allowAir)
FallJump ==
    /\ hist.ops < MaxFallOps
    /\ \E allowAir \in BOOLEAN :
        /\ motor' = JumpResult(motor, jumpStrength, allowAir)
        /\ last' = [op |-> "jump", pre |-> Snapshot(motor), strength |-> jumpStrength,
                    allowAir |-> allowAir]
    /\ hist' = [hist EXCEPT !.ops = @ + 1]
    /\ UNCHANGED <<physics, body, platforms, player, input, camera, visual, carrier, frame>>

FallNext ==
    \/ FallUpdate
    \/ FallJump

FallSpec == FallInit /\ [][FallNext]_vars

\* C24: after every update of an initialized motor velocity.y >= -50; a grounded
\* sweep leaves groundedTimer = coyoteTime and velocity.y >= 0, an airborne sweep
\* leaves groundedTimer exactly dt lower; groundedTimer never exceeds coyoteTime.
C24_VerticalAndTimer ==
    /\ motor.groundedTimer <= coyoteTime
    /\ InitedUpdate =>
          /\ motor.velocity.y >= -50 * VU
          /\ last.sweep.grounded =>
                (motor.groundedTimer = coyoteTime /\ motor.velocity.y >= 0)
          /\ ~last.sweep.grounded =>
                motor.groundedTimer = last.pre.groundedTimer - last.dt

\* a fall at 49.9 m/s is held at the terminal velocity while the timer keeps running
C24_Witness ==
    /\ InitedUpdate
    /\ last.pre.velocity.y = -50 * VU + VU \div 10
    /\ ~last.sweep.grounded
    /\ motor.velocity.y = -50 * VU
    /\ motor.groundedTimer = last.pre.groundedTimer - last.dt
    /\ motor.groundedTimer < 0

(***************************************************************************)
(* InputSpec: one CharacterMotor.update on a moving or resting motor, for   *)
(* every key combination of InputManager.getMovementInput, for small and   *)
(* full analog axes, and for every camera yaw.                             *)
(***************************************************************************)
InputSpeeds == {0, 3 * VU, -6 * VU}

\* axis values: 0, 0.01, 0.02, 0.03 and full deflection
InputAxesX == {0, DU \div 100, DU \div 50, (3 * DU) \div 100, -DU}

InputAxesZ == {0, DU \div 100, DU \div 50, -((3 * DU) \div 100), DU}

KeyStates == [forward : BOOLEAN, backward : BOOLEAN, left : BOOLEAN, right : BOOLEAN,
              jump : {FALSE}]

InputSpecInit ==
    /\ physics = [PhysicsConstructed EXCEPT !.world = TRUE]
    /\ body = SpawnedBody
    /\ \E vx \in InputSpeeds, vz \in InputSpeeds, g \in BOOLEAN :
          motor = [MotorAtRest(g) EXCEPT !.velocity = Vec(vx, 0, vz)]
    /\ player = PlayerConstructed
    /\ input = InputConstructed
    /\ \E yaw \in 0..7 : camera = [CameraConstructed EXCEPT !.yaw = yaw]
    /\ visual = VisualConstructed
    /\ platforms = NoPlatforms
    /\ carrier = CarrierConstructed
    /\ frame = FrameIdle
    /\ last = NoOp
    /\ hist = NoHistory

\* keys go down, then CharacterMotor.update(dt, input.getMovementInput(), yaw)
InputKeyUpdate ==
    /\ last.op = "none"
    /\ \E keys \in KeyStates, sweep \in FrameSweeps :
        LET mv == GetMovementInput(keys)
            r  == MotorUpdateResult(motor, body, fixedDt, mv, camera.yaw, sweep)
        IN  /\ input' = [input EXCEPT !.keys = keys]
            /\ motor' = r.motor
            /\ body' = r.body
            /\ last' = [op |-> "update", pre |-> Snapshot(motor), dt |-> fixedDt, move |-> mv,
                        yaw |-> camera.yaw, sweep |-> sweep, keys |-> keys]
    /\ UNCHANGED <<physics, platforms, player, camera, visual, carrier, frame, hist>>

\* CharacterMotor.update(dt, {x, z}, yaw) with analog axes
InputAxisUpdate ==
    /\ last.op = "none"
    /\ \E x \in InputAxesX, z \in InputAxesZ, sweep \in FrameSweeps :
        LET mv == [x |-> x, z |-> z]
            r  == MotorUpdateResult(motor, body, fixedDt, mv, camera.yaw, sweep)
        IN  /\ motor' = r.motor
            /\ body' = r.body
            /\ last' = [op |-> "update", pre |-> Snapshot(motor), dt |-> fixedDt, move |-> mv,
                        yaw |-> camera.yaw, sweep |-> sweep, keys |-> input.keys]
    /\ UNCHANGED <<physics, platforms, player, input, camera, visual, carrier, frame, hist>>

InputNext ==
    \/ InputKeyUpdate
    \/ InputAxisUpdate

InputSpec == InputSpecInit /\ [][InputNext]_vars

\* v1 is v moved toward zero (or v itself): not larger, not of the other sign
TowardZero(v, v1) ==
    /\ Abs(v1) <= Abs(v)
    /\ (v >= 0 => v1 >= 0)
    /\ (v <= 0 => v1 <= 0)

\* C25: update normalizes the desired direction only when its squared length
\* exceeds 0.001, and then its length is not zero; otherwise (no input, opposing
\* keys, tiny axes) it takes the friction branch and each horizontal velocity
\* component moves toward zero.
C25_NoInputMeansFriction ==
    InitedUpdate =>
        LET d  == DesiredDir(last.move, last.yaw)
            sq == d.x * d.x + d.z * d.z
            a  == Accelerate(last.pre.velocity, d, last.pre.isGrounded, last.dt)
            f  == ApplyFriction(last.pre.velocity, last.pre.isGrounded, last.dt)
        IN  IF sq * 1000 > DU * DU
            THEN /\ ISqrt(sq) > 0
                 /\ motor.velocity.x = a.x
                 /\ motor.velocity.z = a.z
            ELSE /\ motor.velocity.x = f.x
                 /\ motor.velocity.z = f.z
                 /\ TowardZero(last.pre.velocity.x, motor.velocity.x)
                 /\ TowardZero(last.pre.velocity.z, motor.velocity.z)

\* left and right held together cancel: the motor, moving at 3 m/s, slows down
C25_Witness ==
    /\ InitedUpdate
    /\ last.keys.left /\ last.keys.right
    /\ ~last.keys.forward /\ ~last.keys.backward
    /\ last.move = NoMove
    /\ last.pre.velocity.x = 3 * VU
    /\ motor.velocity.x < 3 * VU
    /\ motor.velocity.x > 0

(***************************************************************************)
(* VisualSpec: frames of PlayerController.update with the movement keys     *)
(* going down and up between them, and VisualRig.update and setFacing       *)
(* called directly.                                                         *)
(***************************************************************************)
MaxVisualOps == 4

VisualYaws == {PI \div 2, -(PI \div 4)}

\* InputManager._onKeyDown / _onKeyUp for the forward and the right key
VisualKey ==
    /\ hist.ops < MaxVisualOps
    /\ \/ input' = [input EXCEPT !.keys.forward = ~input.keys.forward]
       \/ input' = [input EXCEPT !.keys.right = ~input.keys.right]
    /\ last' = [op |-> "key", pre |-> visual]
    /\ hist' = [hist EXCEPT !.ops = @ + 1]
    /\ UNCHANGED <<physics, body, platforms, motor, player, camera, visual, carrier, frame>>

\* PlayerController.update(dt)
VisualFrame ==
    /\ hist.ops < MaxVisualOps
    /\ \E dt \in PlayerDts, sweep \in FrameSweeps :
        LET r == PlayerUpdateResult(player, input, camera, carrier, platforms, motor, body,
                                    visual, dt, sweep)
        IN  /\ player' = r.player
            /\ input' = r.input
            /\ camera' = r.camera
            /\ carrier' = r.carrier
            /\ motor' = r.motor
            /\ body' = r.body
            /\ visual' = r.visual
            /\ last' = [op |-> "playerUpdate", pre |-> visual, dt |-> dt,
                        velocity |-> r.motor.velocity]
    /\ hist' = [hist EXCEPT !.ops = @ + 1]
    /\ UNCHANGED <<physics, platforms, frame>>

\* VisualRig.update(dt, position, targetYaw)
VisualUpdate ==
    /\ hist.ops < MaxVisualOps
    /\ \E targetYaw \in {NoFacing} \cup VisualYaws :
        /\ visual' = VisualUpdateResult(visual, fixedDt, body.pos, targetYaw)
        /\ last' = [op |-> "visualUpdate", pre |-> visual, target |-> targetYaw]
    /\ hist' = [hist EXCEPT !.ops = @ + 1]
    /\ UNCHANGED <<physics, body, platforms, motor, player, input, camera, carrier, frame>>

\* VisualRig.setFacing(yaw)
VisualSetFacing ==
    /\ hist.ops < MaxVisualOps
    /\ \E yaw \in VisualYaws :
        /\ visual' = SetFacingResult(visual, yaw)
        /\ last' = [op |-> "setFacing", pre |-> visual, yaw |-> yaw]
    /\ hist' = [hist EXCEPT !.ops = @ + 1]
    /\ UNCHANGED <<physics, body, platforms, motor, player, input, camera, carrier, frame>>

VisualNext ==
    \/ VisualKey
    \/ VisualFrame
    \/ VisualUpdate
    \/ VisualSetFacing

VisualSpec == Started /\ [][VisualNext]_vars

\* the frame ended with the motor's squared horizontal speed below 0.01
SlowFrame ==
    /\ last.op = "playerUpdate"
    /\ Abs(last.velocity.x) <= VU \div 10
    /\ Abs(last.velocity.z) <= VU \div 10
    /\ last.velocity.x * last.velocity.x + last.velocity.z * last.velocity.z < (VU * VU) \div 100

\* C26: VisualRig.update with a null target keeps facingYaw and clears isMoving;
\* facingYaw changes only in update with a target or in setFacing; so a frame of
\* PlayerController.update that ends below the facing speed keeps the facing.
C26_NullKeepsFacing ==
    /\ (last.op = "visualUpdate" /\ last.target = NoFacing) =>
          (visual.facingYaw = last.pre.facingYaw /\ ~visual.isMoving)
    /\ (last.op # "none" /\ visual.facingYaw # last.pre.facingYaw) =>
          \/ last.op = "setFacing"
          \/ last.op = "visualUpdate" /\ last.target # NoFacing
          \/ last.op = "playerUpdate" /\ ~SlowFrame
    /\ SlowFrame => (visual.facingYaw = last.pre.facingYaw /\ ~visual.isMoving)

\* the rig had been turned to a quarter turn; a frame with the motor at rest keeps it
C26_Witness ==
    /\ SlowFrame
    /\ last.pre.facingYaw = PI \div 2
    /\ last.pre.isMoving
    /\ visual.facingYaw = PI \div 2
    /\ ~visual.isMoving

(***************************************************************************)
(* SchedSpec: when the backlog is dropped, and conservation of time         *)
(***************************************************************************)
\* what the sub-step loop of the last step call left in the accumulator
LoopRemainder == last.added - last.steps * fixedDt

\* C27: step resets the accumulator only after exactly maxSubSteps sub-steps, and
\* only a remainder above 2 * fixedDt; a call that ran fewer leaves it in
\* [0, fixedDt) with steps * fixedDt + accumulator = accumulator before + dt; with
\* a null world the accumulator is unchanged and no sub-step runs.
C27_DropOnlyAtCap ==
    last.op = "step" =>
        IF ~last.world
        THEN /\ physics.accumulator = last.before
             /\ last.steps = 0
        ELSE /\ physics.accumulator # LoopRemainder =>
                   /\ last.steps = maxSubSteps
                   /\ LoopRemainder > 2 * fixedDt
                   /\ physics.accumulator = 0
             /\ last.steps < maxSubSteps =>
                   /\ physics.accumulator >= 0
                   /\ physics.accumulator < fixedDt
                   /\ last.steps * fixedDt + physics.accumulator = last.before + last.dt

\* a call that ran three sub-steps on top of a carried remainder and kept a new one
C27_Witness ==
    /\ last.op = "step"
    /\ last.world
    /\ last.steps = 3
    /\ last.before > 0
    /\ physics.accumulator > 0
    /\ physics.accumulator # last.before

JumpFrame ==
    /\ last.op = "playerUpdate"
    /\ last.jumped # "none"

\* C30: a frame of PlayerController.update calls jump at most once and only with
\* the jump key held; when a jump follows an earlier one, the dt of the frames from
\* the earlier jump's frame up to the frame before sum to at least jumpCooldown.
C30_JumpCooldown ==
    /\ last.op = "playerUpdate" =>
          /\ Cardinality({i \in 1..Len(last.calls) : last.calls[i] = "jump"})
                = (IF last.jumped = "none" THEN 0 ELSE 1)
          /\ last.jumped \in {"none", "ground", "air"}
    /\ JumpFrame => last.key
    /\ (JumpFrame /\ last.since >= 0) => last.since >= (2 * TU) \div 10

\* a second jump in the first frame the cooldown allows: two frames of 0.1 s after
\* the first jump
C30_Witness ==
    /\ JumpFrame
    /\ last.since = (2 * TU) \div 10
    /\ last.cooldown = 0
    /\ hist.sinceJump = last.dt

====
